---- MODULE Spec2Model ----
\* Resilience layer of the TaskFlow API: the Redis-backed sliding-window rate
\* limiter (RateLimitService) and the circuit breaker (CircuitBreakerService).
EXTENDS Integers, Sequences, FiniteSets, TLC

\* ------------------------------------------------------------------ bounds
\* The clock runs from 0 to MaxTime milliseconds in steps of TickMs.
MaxTime == 1500
TickMs == 500
\* Policies are drawn with limit in 1..MaxLimit.
MaxLimit == 2
\* Total number of checkRateLimit calls started in one behaviour.
MaxCalls == 3
\* checkRateLimit calls per behaviour where callers of two processes, or
\* calls of getRateLimitInfo and resetRateLimit, interleave with them
MaxShortCalls == 2
\* Total number of store faults (rejected exec, null reply, command error),
\* and of calls started, in one behaviour of the faulty store.
MaxFaults == 1
MaxFaultyCalls == 2
\* Total number of checkRateLimit calls of the client that keeps calling.
MaxBurstCalls == 4
\* Total number of getRateLimitInfo calls, and of resetRateLimit calls, in one
\* behaviour.
MaxInfos == 2
MaxResets == 1
\* Total number of requests that reach the guard in one behaviour.
MaxRequests == 3

\* Milliseconds per second, the divisor of the TTL and retryAfter roundings.
MsPerSec == 1000

\* Breakers are created with failureThreshold in 1..MaxThreshold.
MaxThreshold == 3
\* Total number of execute calls made in one behaviour.
MaxExecs == 5
\* In the process that lives on: operations that fail per name, and successes
\* in a row a CLOSED breaker counts before calls to it are left out.
MaxFailures == 4
MaxSuccesses == 2
\* Total number of execute calls in one behaviour of the whole service.
MaxOpsExecs == 3
\* executeWithRetry is called with maxRetries in 0..MaxRetries, and at most
\* MaxTxFaults steps of its transactions fail in one behaviour.
MaxRetries == 3
MaxTxFaults == 3
\* Number of statements the operation of a transaction runs.
TxWrites == 2

\* Window lengths the policies are drawn from (ms).
WindowChoices == {1000, 1200}
\* Client identifiers (the guard's hashed strings).
Identifiers == {"a", "b"}
\* Calls in flight: <<process, slot>>. A process owns one Redis connection.
Callers == {<<"p1", 1>>, <<"p1", 2>>, <<"p2", 1>>}
Procs == {c[1] : c \in Callers}
ProcOf(c) == c[1]
CallersOf(p) == {c \in Callers : ProcOf(c) = p}
\* Dependency names, and the requests that call execute.
ServiceNames == {"db"}
Requests == {"r1", "r2"}
\* recoveryTimeout values the breakers are created with (ms).
RecoveryChoices == {1000}
\* Dependency names of the service that also takes reset and getStatus calls.
DependencyNames == {"db", "mail"}

VARIABLES
  clock,     \* Date.now(), ms
  redis,     \* the shared store: sorted sets and key expiry times
  conn,      \* per process: commands written to its connection, not yet executed
  call,      \* per caller: the call of RateLimitService it has in flight
  hist,      \* every call started, in start order, with its result once returned
  policy,    \* the options the route passes to checkRateLimit
  faults,    \* number of store faults so far
  solo,      \* per identifier: a store that sees only that identifier's commands
  handled,   \* the requests that reached the guard, in order, with its decision
  infos,     \* every getRateLimitInfo call started, in start order, with its result
  resets,    \* every resetRateLimit call started, in start order, with its outcome
  circuitBreakers,  \* CircuitBreakerService.circuitBreakers: name -> breaker
  exec,      \* per caller of execute: the operation it has in flight
  streak,    \* per name: operations that failed in a row since the last success
  probes,    \* per name: successes in a row since the breaker went HALF_OPEN
  failures,  \* per name: operations that have failed so far
  invoked,   \* number of operations invoked so far
  started,   \* number of execute calls made so far
  raised,    \* per caller of execute: the error its last call threw, if any
  firstOptions,  \* name -> the options argument of the first execute call
  otherOptions,  \* per name: a later execute call passed other options
  resetLog,  \* per name: the state the last reset found, and what became of
             \* the execute call that followed it
  status,    \* what getStatus() returned, when the last call made was getStatus
  letThrough,  \* per name: operations invoked since the breaker went HALF_OPEN,
               \* while it is HALF_OPEN
  database,  \* the writes that have been committed
  runner,    \* the QueryRunner of the transaction in progress
  txn        \* the call of the transaction service in progress

rlState == <<redis, conn, call, hist, policy, faults, solo, handled, infos, resets>>
cbState == <<circuitBreakers, exec, streak, probes, failures, invoked, started,
             raised, firstOptions, otherOptions, resetLog, status, letThrough>>
txState == <<database, runner, txn>>
vars == <<clock, redis, conn, call, hist, policy, faults, solo, handled,
          infos, resets,
          database, runner, txn,
          circuitBreakers, exec, streak, probes, failures, invoked, started,
          raised, firstOptions, otherOptions, resetLog, status, letThrough>>

\* ------------------------------------------------------------ JS values
\* A JS number is either an integer or NaN; an absent array slot or property
\* reads as undefined.
Num(n) == <<"number", n>>
NaN == <<"NaN">>
Undefined == <<"undefined">>
IsNum(v) == Len(v) = 2 /\ v[1] = "number"

\* a - b on JS values: undefined converts to NaN, NaN is absorbing.
JsSub(a, b) == IF IsNum(a) /\ IsNum(b) THEN Num(a[2] - b[2]) ELSE NaN
\* Math.max(a, b): NaN if either argument is NaN.
JsMax(a, b) ==
  IF IsNum(a) /\ IsNum(b) THEN (IF a[2] >= b[2] THEN a ELSE b) ELSE NaN
\* Variant of JsGe: the comparison written as a > b.
JsGeStrict(a, b) == IsNum(a) /\ IsNum(b) /\ a[2] > b[2]
\* a >= b: false when either side converts to NaN.
JsGe(a, b) == IsNum(a) /\ IsNum(b) /\ a[2] >= b[2]
\* Math.ceil(a / b) for a >= 0, b > 0.
CeilDiv(a, b) == (a + b - 1) \div b

\* --------------------------------------------------------------- options
defaultOptions == [limit |-> 100, windowMs |-> 60000, keyPrefix |-> "rate_limit:"]

\* { ...defaults, ...options }: a field of options overrides the default.
MergeOptions(defaults, options) ==
  [f \in DOMAIN defaults \cup DOMAIN options |->
     IF f \in DOMAIN options THEN options[f] ELSE defaults[f]]

\* Variant of Key: the identifier left out of the key.
KeyWithoutIdentifier(opts, identifier) == opts.keyPrefix
\* `${opts.keyPrefix}${identifier}`
Key(opts, identifier) == opts.keyPrefix \o identifier

\* Variant of WindowStart: windowMs taken for seconds.
WindowStartSeconds(now, opts) == now - opts.windowMs * MsPerSec
WindowStart(now, opts) == now - opts.windowMs

\* ----------------------------------------------------------------- store
\* A sorted set is kept as the ascending sequence of its members' scores: each
\* member is `${now}-${Math.random()}`, a fresh name, so ZADD always adds one.
EmptyStore == [zsets |-> <<>>, ttl |-> <<>>]

Restrict(f, S) == [k \in S |-> f[k]]

ZSetOf(store, key) == IF key \in DOMAIN store.zsets THEN store.zsets[key] ELSE <<>>

\* Store a sorted set back; Redis deletes a key whose sorted set became empty.
PutZSet(store, key, z) ==
  IF z = <<>>
  THEN [zsets |-> Restrict(store.zsets, DOMAIN store.zsets \ {key}),
        ttl |-> Restrict(store.ttl, DOMAIN store.ttl \ {key})]
  ELSE [zsets |-> [k \in DOMAIN store.zsets \cup {key} |->
                     IF k = key THEN z ELSE store.zsets[k]],
        ttl |-> store.ttl]

\* ZREMRANGEBYSCORE key min max: both ends inclusive.
InRange(s, min, max) == min <= s /\ s <= max
ZRemRangeByScore(z, min, max) ==
  LET Keep(s) == ~InRange(s, min, max) IN SelectSeq(z, Keep)

\* Variant of ZAdd: every attempt uses one member, whose score is overwritten.
ZAddSameMember(z, score) == <<score>>

\* ZADD key score member, for a member not yet in the set.
ZAdd(z, score) ==
  LET Before(s) == s <= score
      After(s) == s > score
  IN SelectSeq(z, Before) \o <<score>> \o SelectSeq(z, After)

ZCard(z) == Len(z)

\* Variant of Del: the key is left in place.
DelNothing(store, key) == store

\* DEL key: the sorted set and its expiry time are gone.
Del(store, key) ==
  [zsets |-> Restrict(store.zsets, DOMAIN store.zsets \ {key}),
   ttl |-> Restrict(store.ttl, DOMAIN store.ttl \ {key})]

\* Keys whose time to live has run out at time t are gone.
Purge(store, t) ==
  LET live == {k \in DOMAIN store.zsets : k \notin DOMAIN store.ttl \/ store.ttl[k] > t}
  IN [zsets |-> Restrict(store.zsets, live),
      ttl |-> Restrict(store.ttl, live \cap DOMAIN store.ttl)]

\* -------------------------------------------------------- checkRateLimit
\* Variant of Pipeline: the prune runs up to now in place of windowStart.
PipelinePrunesToNow(key, now, opts) ==
  << [op |-> "zremrangebyscore", key |-> key, a |-> 0, b |-> now],
     [op |-> "zcard", key |-> key, a |-> 0, b |-> 0],
     [op |-> "zadd", key |-> key, a |-> now, b |-> 0],
     [op |-> "expire", key |-> key, a |-> CeilDiv(opts.windowMs, MsPerSec), b |-> 0] >>

\* The four commands of the pipeline, in the order they are queued.
Pipeline(key, now, opts) ==
  << [op |-> "zremrangebyscore", key |-> key, a |-> 0, b |-> WindowStart(now, opts)],
     [op |-> "zcard", key |-> key, a |-> 0, b |-> 0],
     [op |-> "zadd", key |-> key, a |-> now, b |-> 0],
     [op |-> "expire", key |-> key, a |-> CeilDiv(opts.windowMs, MsPerSec), b |-> 0] >>

\* Variant of InfoPipeline: the read also records an attempt.
InfoPipelineWithAdd(key, now, opts) ==
  << [op |-> "zremrangebyscore", key |-> key, a |-> 0, b |-> WindowStart(now, opts)],
     [op |-> "zcard", key |-> key, a |-> 0, b |-> 0],
     [op |-> "zadd", key |-> key, a |-> now, b |-> 0] >>

\* The two commands getRateLimitInfo queues.
InfoPipeline(key, now, opts) ==
  << [op |-> "zremrangebyscore", key |-> key, a |-> 0, b |-> WindowStart(now, opts)],
     [op |-> "zcard", key |-> key, a |-> 0, b |-> 0] >>

\* One entry of the array exec() resolves to: [null, value] or [error].
OkEntry(v) == <<"null", Num(v)>>
ErrEntry == <<"error">>
\* The reply of KEYS is the collection of the matching keys.
KeysEntry(keys) == <<"null", <<"array", keys>>>>
ReplyEntry(cmd, reply) == IF cmd.op = "keys" THEN KeysEntry(reply) ELSE OkEntry(reply)
\* entry[1] in JS: the value, or undefined when the entry holds only an error.
EntryValue(entry) == IF Len(entry) >= 2 THEN entry[2] ELSE Undefined

\* Variant of CreateAllowResult: the current request not subtracted.
CreateAllowResultFull(limit, windowMs, t) ==
  [success |-> TRUE, limit |-> limit, remaining |-> Num(limit),
   resetTime |-> t + windowMs, retryAfter |-> Undefined]

CreateAllowResult(limit, windowMs, t) ==
  [success |-> TRUE, limit |-> limit, remaining |-> Num(limit - 1),
   resetTime |-> t + windowMs, retryAfter |-> Undefined]

\* The code after `await pipeline.exec()` for a resolved exec.
\* results = <<>> stands for a null or short array.
ResultOf(opts, now, results, t) ==
  IF Len(results) < 4
  THEN CreateAllowResult(opts.limit, opts.windowMs, t)
  ELSE LET currentCount == EntryValue(results[2])
           remaining == JsMax(Num(0), JsSub(Num(opts.limit), currentCount))
           resetTime == now + opts.windowMs
       IN IF JsGe(currentCount, Num(opts.limit))
          THEN [success |-> FALSE, limit |-> opts.limit, remaining |-> Num(0),
                resetTime |-> resetTime,
                retryAfter |-> Num(CeilDiv(resetTime - now, MsPerSec))]
          ELSE [success |-> TRUE, limit |-> opts.limit,
                remaining |-> JsSub(remaining, Num(1)),
                resetTime |-> resetTime, retryAfter |-> Undefined]

\* a < b: false when either side converts to NaN.
JsLt(a, b) == IsNum(a) /\ IsNum(b) /\ a[2] < b[2]

\* getRateLimitInfo after `await pipeline.exec()` for a resolved exec.
InfoResultOf(opts, now, results, t) ==
  IF Len(results) < 2
  THEN CreateAllowResult(opts.limit, opts.windowMs, t)
  ELSE LET currentCount == EntryValue(results[2])
           remaining == JsMax(Num(0), JsSub(Num(opts.limit), currentCount))
       IN [success |-> JsLt(currentCount, Num(opts.limit)), limit |-> opts.limit,
           remaining |-> remaining, resetTime |-> now + opts.windowMs,
           retryAfter |-> Undefined]

\* How a call ends: it returns a result or throws to its caller.
Returned(result) == [threw |-> FALSE, result |-> result]
Thrown == [threw |-> TRUE, result |-> Undefined]

\* The catch block: a rejected exec() is turned into the allow result.
CatchResult(opts, t) == Returned(CreateAllowResult(opts.limit, opts.windowMs, t))

Idle == [pc |-> "idle"]

\* exec() of caller c has settled and its continuation has not run yet.
Settled(c) ==
  /\ call[c].pc = "awaiting"
  /\ call[c].exec = "pending" => Len(call[c].results) = call[c].need

\* ------------------------------------------------------------ the guard
\* A string the guard hashes is a sequence of one-character strings. The
\* printable ASCII characters, codes 32 to 95 and 97 to 126 (the backquote,
\* code 96, is left out).
AsciiChars ==
  <<" ", "!", "\"", "#", "$", "%", "&", "'", "(", ")", "*", "+", ",", "-", ".", "/",
    "0", "1", "2", "3", "4", "5", "6", "7", "8", "9", ":", ";", "<", "=", ">", "?",
    "@", "A", "B", "C", "D", "E", "F", "G", "H", "I", "J", "K", "L", "M", "N", "O",
    "P", "Q", "R", "S", "T", "U", "V", "W", "X", "Y", "Z", "[", "\\", "]", "^", "_">>
AsciiLetters ==
  <<"a", "b", "c", "d", "e", "f", "g", "h", "i", "j", "k", "l", "m", "n", "o",
    "p", "q", "r", "s", "t", "u", "v", "w", "x", "y", "z", "{", "|", "}", "~">>
\* str.charCodeAt(i) of a printable ASCII character.
CharCodeAt(ch) ==
  IF \E i \in 1..Len(AsciiChars) : AsciiChars[i] = ch
  THEN 31 + (CHOOSE i \in 1..Len(AsciiChars) : AsciiChars[i] = ch)
  ELSE 96 + (CHOOSE i \in 1..Len(AsciiLetters) : AsciiLetters[i] = ch)

HalfWord == 65536
\* One round of hashString on a 32-bit integer kept as the two 16-bit halves
\* <<high, low>> of its two's complement:
\*   hash = ((hash << 5) - hash) + char;  hash = hash & hash
HashRound(hash, char) ==
  LET low == 31 * hash[2] + char
      high == 31 * hash[1] + (low \div HalfWord)
  IN <<high % HalfWord, low % HalfWord>>

RECURSIVE HashLoop(_, _)
HashLoop(hash, str) ==
  IF str = <<>> THEN hash
  ELSE HashLoop(HashRound(hash, CharCodeAt(Head(str))), Tail(str))

Digits36 ==
  <<"0", "1", "2", "3", "4", "5", "6", "7", "8", "9", "a", "b", "c", "d", "e", "f",
    "g", "h", "i", "j", "k", "l", "m", "n", "o", "p", "q", "r", "s", "t", "u", "v",
    "w", "x", "y", "z">>

\* n.toString(36) for an integer n >= 0
RECURSIVE ToString36(_)
ToString36(n) ==
  IF n < 36 THEN Digits36[n + 1]
  ELSE ToString36(n \div 36) \o Digits36[(n % 36) + 1]

\* Math.abs(hash).toString(36); the one value whose magnitude is 2^31 is
\* written out.
AbsToString36(hash) ==
  IF hash = <<HalfWord \div 2, 0>> THEN "zik0zk"
  ELSE IF hash[1] < HalfWord \div 2
       THEN ToString36(hash[1] * HalfWord + hash[2])
       ELSE IF hash[2] = 0
            THEN ToString36((HalfWord - hash[1]) * HalfWord)
            ELSE ToString36((HalfWord - 1 - hash[1]) * HalfWord + (HalfWord - hash[2]))

\* hashString(str)
HashString(str) == AbsToString36(HashLoop(<<0, 0>>, str))

\* a || b on strings and undefined: an empty string is falsy too.
JsOr(a, b) == IF a = Undefined \/ a = <<>> THEN b ELSE a

\* createIdentifier(request)
CreateIdentifier(request) ==
  LET ip == JsOr(JsOr(request.ip, request.remoteAddress),
                 <<"u", "n", "k", "n", "o", "w", "n">>)
      userAgent == JsOr(request.userAgent, <<"u", "n", "k", "n", "o", "w", "n">>)
      userId == JsOr(request.userId, <<"a", "n", "o", "n", "y", "m", "o", "u", "s">>)
  IN HashString(userId \o <<":">> \o ip \o <<":">> \o userAgent)

\* The clients that send requests: ip, connection.remoteAddress, the
\* user-agent header and user.id, each of which may be missing.
HttpRequests ==
  {[ip |-> <<"1", "0", ".", "0", ".", "0", ".", "7">>, remoteAddress |-> Undefined,
    userAgent |-> <<"c", "u", "r", "l">>, userId |-> Undefined],
   [ip |-> Undefined, remoteAddress |-> <<":", ":", "1">>,
    userAgent |-> Undefined, userId |-> <<"u", "1">>]}

\* The identifiers the guard passes on for these clients.
IdentifierOf == [q \in HttpRequests |-> CreateIdentifier(q)]
GuardIdentifiers == {IdentifierOf[q] : q \in HttpRequests}

\* n written with at least w decimal digits.
RECURSIVE Pad(_, _)
Pad(n, w) ==
  IF w <= 1 /\ n < 10 THEN Digits36[n + 1]
  ELSE Pad(n \div 10, w - 1) \o Digits36[(n % 10) + 1]

\* new Date(ms).toISOString() for a time of day on 1970-01-01.
ToISOString(ms) ==
  "1970-01-01T" \o Pad(ms \div 3600000, 2) \o ":" \o Pad((ms \div 60000) % 60, 2)
     \o ":" \o Pad((ms \div 1000) % 60, 2) \o "." \o Pad(ms % 1000, 3) \o "Z"

\* The handlers behind the guard: login carries @RateLimit(policy), the
\* listing of users carries no annotation of its own.
Routes == {"POST /auth/login", "GET /users"}
\* reflector.get('rate_limit', context.getHandler()) finds an annotation.
HasAnnotation(route) == route = "POST /auth/login"

\* Routes with annotations of different windows, as login (5 per 300000 ms)
\* and register (3 per 3600000 ms) of AuthController have: the one with the
\* shorter window allows more requests.
LimitedRoutes == {"POST /auth/login", "POST /auth/register"}
AnnotationOf(route) ==
  IF route = "POST /auth/login"
  THEN [limit |-> 2, windowMs |-> 800]
  ELSE [limit |-> 1, windowMs |-> 1500]

\* Variant of RateLimitOptionsOf: every route is given a key prefix of its own.
RateLimitOptionsPerRoute(route) ==
  [limit |-> AnnotationOf(route).limit, windowMs |-> AnnotationOf(route).windowMs,
   keyPrefix |-> route \o ":"]

\* reflector.get('rate_limit', context.getHandler()): the annotation as it
\* was written, passed on to checkRateLimit unchanged.
RateLimitOptionsOf(route) == AnnotationOf(route)

HeaderNames == {"X-RateLimit-Limit", "X-RateLimit-Remaining", "X-RateLimit-Reset"}

\* The body of the HttpException thrown for a rejected request.
TooManyRequests(result) ==
  [status |-> 429, limit |-> result.limit, remaining |-> result.remaining,
   resetTime |-> ToISOString(result.resetTime), retryAfter |-> result.retryAfter]

\* Variant of GuardDecision: a request is refused when nothing remains.
GuardDecisionAtZero(entry, result) ==
  IF result.remaining = Num(0)
  THEN [entry EXCEPT !.outcome = "429", !.body = TooManyRequests(result)]
  ELSE [entry EXCEPT !.outcome = "true",
          !.headers = [h \in HeaderNames |->
                         CASE h = "X-RateLimit-Limit" -> result.limit
                           [] h = "X-RateLimit-Remaining" -> result.remaining
                           [] OTHER -> ToISOString(result.resetTime)]]

\* canActivate, lines 29-48: what the guard does with the result of the
\* check. outcome "429": it throws and the handler does not run; "true": it
\* returns true. headers: the headers set on the response.
GuardDecision(entry, result) ==
  IF ~result.success
  THEN [entry EXCEPT !.outcome = "429", !.body = TooManyRequests(result)]
  ELSE [entry EXCEPT !.outcome = "true",
          !.headers = [h \in HeaderNames |->
                         CASE h = "X-RateLimit-Limit" -> result.limit
                           [] h = "X-RateLimit-Remaining" -> result.remaining
                           [] OTHER -> ToISOString(result.resetTime)]]

\* ------------------------------------------------------- circuit breaker
cbDefaultOptions ==
  [failureThreshold |-> 5, recoveryTimeout |-> 30000,
   expectedResponseTime |-> 5000, monitoringWindow |-> 60000]

\* new CircuitBreaker(serviceName, options, logger) at time t.
NewCircuitBreaker(options, t) ==
  [state |-> "CLOSED", failureCount |-> 0, lastFailure |-> Undefined,
   lastStateChange |-> t, consecutiveSuccesses |-> 0, options |-> options]

\* Variant of GetOrCreateCircuitBreaker: a breaker is built from the options
\* of every call.
GetOrReplaceCircuitBreaker(registry, serviceName, options, t) ==
  [n \in DOMAIN registry \cup {serviceName} |->
     IF n = serviceName
     THEN NewCircuitBreaker(MergeOptions(cbDefaultOptions, options), t)
     ELSE registry[n]]

\* getOrCreateCircuitBreaker: the registry after the lookup.
GetOrCreateCircuitBreaker(registry, serviceName, options, t) ==
  IF serviceName \in DOMAIN registry
  THEN registry
  ELSE [n \in DOMAIN registry \cup {serviceName} |->
          IF n = serviceName
          THEN NewCircuitBreaker(MergeOptions(cbDefaultOptions, options), t)
          ELSE registry[n]]

TransitionToOpen(b, t) == [b EXCEPT !.state = "OPEN", !.lastStateChange = t]

TransitionToHalfOpen(b, t) == [b EXCEPT !.state = "HALF_OPEN", !.lastStateChange = t]

TransitionToClosed(b, t) ==
  [b EXCEPT !.state = "CLOSED", !.lastStateChange = t,
            !.failureCount = 0, !.consecutiveSuccesses = 0]

\* Variant of ShouldAttemptReset: the recovery timeout never runs out.
ShouldAttemptResetNever(b, t) == FALSE

ShouldAttemptReset(b, t) ==
  IF ~IsNum(b.lastFailure) THEN FALSE
  ELSE t - b.lastFailure[2] >= b.options.recoveryTimeout

\* Variant of OnSuccess: the number of probes rounded down.
OnSuccessFloor(b, t) ==
  LET b1 == [b EXCEPT !.failureCount = 0,
                      !.consecutiveSuccesses = @ + 1]
  IN IF b1.state = "HALF_OPEN"
        /\ b1.consecutiveSuccesses >= b1.options.failureThreshold \div 2
     THEN TransitionToClosed(b1, t)
     ELSE b1

\* Variant of OnSuccess: failureCount not cleared.
OnSuccessKeepsCount(b, t) ==
  LET b1 == [b EXCEPT !.consecutiveSuccesses = @ + 1]
  IN IF b1.state = "HALF_OPEN"
        /\ b1.consecutiveSuccesses >= CeilDiv(b1.options.failureThreshold, 2)
     THEN TransitionToClosed(b1, t)
     ELSE b1

OnSuccess(b, t) ==
  LET b1 == [b EXCEPT !.failureCount = 0,
                      !.consecutiveSuccesses = @ + 1]
  IN IF b1.state = "HALF_OPEN"
        /\ b1.consecutiveSuccesses >= CeilDiv(b1.options.failureThreshold, 2)
     THEN TransitionToClosed(b1, t)
     ELSE b1

\* Variant of OnFailure: the time of the failure is not recorded.
OnFailureWithoutTime(b, t) ==
  LET b1 == [b EXCEPT !.failureCount = @ + 1,
                      !.consecutiveSuccesses = 0]
  IN IF b1.failureCount >= b1.options.failureThreshold
     THEN TransitionToOpen(b1, t)
     ELSE b1

\* Variant of OnFailure: the threshold compared with > in place of >=.
OnFailureStrict(b, t) ==
  LET b1 == [b EXCEPT !.failureCount = @ + 1,
                      !.lastFailure = Num(t),
                      !.consecutiveSuccesses = 0]
  IN IF b1.failureCount > b1.options.failureThreshold
     THEN TransitionToOpen(b1, t)
     ELSE b1

OnFailure(b, t) ==
  LET b1 == [b EXCEPT !.failureCount = @ + 1,
                      !.lastFailure = Num(t),
                      !.consecutiveSuccesses = 0]
  IN IF b1.failureCount >= b1.options.failureThreshold
     THEN TransitionToOpen(b1, t)
     ELSE b1

\* Variant of Admit: the state is not looked at before the operation.
AdmitWithoutCheck(b, t) == [rejected |-> FALSE, breaker |-> b]

\* Variant of Admit: a rejected call restarts the recovery timeout.
AdmitRestartsTimer(b, t) ==
  IF b.state = "OPEN"
  THEN IF ShouldAttemptReset(b, t)
       THEN [rejected |-> FALSE, breaker |-> TransitionToHalfOpen(b, t)]
       ELSE [rejected |-> TRUE, breaker |-> [b EXCEPT !.lastFailure = Num(t)]]
  ELSE [rejected |-> FALSE, breaker |-> b]

\* The head of CircuitBreaker.execute: what happens before the operation.
\* rejected: the call throws the circuit-open error and invokes nothing.
Admit(b, t) ==
  IF b.state = "OPEN"
  THEN IF ShouldAttemptReset(b, t)
       THEN [rejected |-> FALSE, breaker |-> TransitionToHalfOpen(b, t)]
       ELSE [rejected |-> TRUE, breaker |-> b]
  ELSE [rejected |-> FALSE, breaker |-> b]

NoOperation == [pc |-> "idle", last |-> "none"]
\* No reset has been made under a name; from: the state a reset found; next:
\* "awaited" until a call under the name follows the reset, then "invoked" or
\* "rejected" for an execute call, "void" when an operation settled first.
NoReset == [from |-> "none", next |-> "void"]

\* An error object: its constructor name and its message.
ErrorObject(name, message) == <<"error", name, message>>
\* new Error(`Circuit breaker for ${this.serviceName} is OPEN`)
CircuitOpenError(serviceName) ==
  ErrorObject("Error", "Circuit breaker for " \o serviceName \o " is OPEN")
\* The error of a failing dependency.
DependencyError == ErrorObject("Error", "connect ECONNREFUSED")
\* Errors an operation can reject with: the dependency's own, a typed one of
\* the database driver, and that of an operation which itself ran into an
\* open breaker of the same name.
OperationErrors ==
  {DependencyError,
   ErrorObject("QueryFailedError", "deadlock detected"),
   CircuitOpenError("db")}

\* Variant of ResetCircuitBreaker: the counters are left as they are.
ResetKeepsCounters(b, t) ==
  [b EXCEPT !.state = "CLOSED", !.lastFailure = Undefined, !.lastStateChange = t]

\* CircuitBreaker.reset: CLOSED, counters zeroed, lastFailure forgotten.
ResetCircuitBreaker(b, t) ==
  [b EXCEPT !.state = "CLOSED", !.failureCount = 0, !.consecutiveSuccesses = 0,
            !.lastFailure = Undefined, !.lastStateChange = t]

\* CircuitBreaker.getStatus
BreakerStatus(b) ==
  [state |-> b.state, failureCount |-> b.failureCount, lastFailure |-> b.lastFailure]

\* Variant of ServiceStatus: breakers that never failed are left out.
ServiceStatusOfFailed(registry) ==
  [n \in {k \in DOMAIN registry : IsNum(registry[k].lastFailure)} |->
     BreakerStatus(registry[n])]

\* CircuitBreakerService.getStatus: one entry per breaker of the registry.
ServiceStatus(registry) == [n \in DOMAIN registry |-> BreakerStatus(registry[n])]

\* A returned object, as opposed to undefined.
Object(fields) == <<"object", fields>>
IsObject(v) == v[1] = "object"

OptionChoices ==
  {[failureThreshold |-> th, recoveryTimeout |-> rt] :
     th \in 1..MaxThreshold, rt \in RecoveryChoices}

\* Partial<CircuitBreakerOptions>: every field is optional.
PartialOptionChoices ==
  {<<>>, [failureThreshold |-> 1]}
    \cup {[failureThreshold |-> 1, recoveryTimeout |-> rt] : rt \in RecoveryChoices}

\* ------------------------------------------------------- transactions
\* Strings are sequences of one-character strings here as well. The codes
\* of isRetryableError's allow-list:
ErLockDeadlock ==
  <<"E", "R", "_", "L", "O", "C", "K", "_", "D", "E", "A", "D", "L", "O", "C", "K">>
ErLockWaitTimeout ==
  <<"E", "R", "_", "L", "O", "C", "K", "_", "W", "A", "I", "T", "_", "T", "I", "M",
    "E", "O", "U", "T">>
ErQueryInterrupted ==
  <<"E", "R", "_", "Q", "U", "E", "R", "Y", "_", "I", "N", "T", "E", "R", "R", "U",
    "P", "T", "E", "D">>
ErConnectionLost ==
  <<"E", "R", "_", "C", "O", "N", "N", "E", "C", "T", "I", "O", "N", "_", "L", "O",
    "S", "T">>
ErServerShutdown ==
  <<"E", "R", "_", "S", "E", "R", "V", "E", "R", "_", "S", "H", "U", "T", "D", "O",
    "W", "N">>
RetryableErrors ==
  {ErLockDeadlock, ErLockWaitTimeout, ErQueryInterrupted, ErConnectionLost, ErServerShutdown}

\* str.includes(sub)
Includes(str, sub) ==
  \E i \in 0..(Len(str) - Len(sub)) : SubSeq(str, i + 1, i + Len(sub)) = sub

\* An error of the database layer: its message and its code, either of which
\* may be missing.
DbError(message, code) == <<"error", message, code>>
MessageOf(error) == error[2]
CodeOf(error) == error[3]

\* Variant of IsRetryableError: only the code is looked at.
IsRetryableByCode(error) ==
  \E retryableError \in RetryableErrors : CodeOf(error) = retryableError

\* isRetryableError(error)
IsRetryableError(error) ==
  \E retryableError \in RetryableErrors :
    \/ MessageOf(error) /= Undefined /\ Includes(MessageOf(error), retryableError)
    \/ CodeOf(error) = retryableError

\* Errors a step of a transaction can fail with: a deadlock reported by code,
\* a lock wait timeout reported in the message only, a constraint violation,
\* and a connection that has gone away.
DeadlockError ==
  DbError(<<"d", "e", "a", "d", "l", "o", "c", "k">>, ErLockDeadlock)
LockTimeoutError ==
  DbError(<<"1", "2", "0", "5", " ">> \o ErLockWaitTimeout \o <<":", " ", "r", "e", "t", "r", "y">>,
          Undefined)
ConstraintError ==
  DbError(<<"d", "u", "p", "l", "i", "c", "a", "t", "e", " ", "k", "e", "y">>,
          <<"2", "3", "5", "0", "5">>)
ConnectionGoneError ==
  DbError(<<"c", "o", "n", "n", "e", "c", "t", "i", "o", "n", " ", "g", "o", "n", "e">>,
          Undefined)
StepErrors == {DeadlockError, LockTimeoutError, ConstraintError}
\* new Error('Transaction failed after all retry attempts')
AllAttemptsFailedError ==
  DbError(<<"a", "l", "l", " ", "a", "t", "t", "e", "m", "p", "t", "s", " ",
            "f", "a", "i", "l", "e", "d">>, Undefined)

\* dataSource.createQueryRunner(): no transaction, nothing written.
NewQueryRunner == [active |-> FALSE, pending |-> {}, released |-> FALSE]

\* What a call hands to its caller: a result, or an error it throws.
ReturnedResult == <<"returned">>

\* No call of the transaction service has been made.
\* pc: the await the call is at; caught: the error the catch block of
\* executeInTransaction has caught; handover: what executeInTransaction hands
\* over once its finally block has run; original: stage and error of the
\* first step that failed inside the transaction; tries: begin, end and
\* outcome of every executeInTransaction call; waits: the delays slept.
NoTransaction ==
  [pc |-> "idle", mode |-> "none", maxRetries |-> 0, backoffMs |-> 0, attempt |-> 0,
   total |-> 0, written |-> 0, caught |-> Undefined, handover |-> Undefined,
   original |-> Undefined, lastError |-> Undefined, wake |-> 0, tries |-> <<>>,
   waits |-> <<>>, outcome |-> Undefined, commits |-> 0, faults |-> 0]

RECURSIVE Pow2(_)
Pow2(n) == IF n = 0 THEN 1 ELSE 2 * Pow2(n - 1)

\* Variant of BackoffDelay: the same wait after every attempt.
BackoffDelayFlat(backoffMs, attempt) == backoffMs

\* backoffMs * Math.pow(2, attempt - 1)
BackoffDelay(backoffMs, attempt) == backoffMs * Pow2(attempt - 1)

\* ------------------------------------------------------- store commands
\* The names the model builds keys from.
KeyNames == Identifiers \cup GuardIdentifiers

\* KEYS prefix*: the key is the prefix followed by the name of a client.
MatchesPattern(key, prefix) == \E i \in KeyNames : key = prefix \o i

\* The store runs one command at time t: the new store and the reply.
ApplyCmd(store, cmd, t) ==
  LET z == ZSetOf(store, cmd.key) IN
  CASE cmd.op = "zremrangebyscore" ->
         LET z2 == ZRemRangeByScore(z, cmd.a, cmd.b)
         IN [store |-> PutZSet(store, cmd.key, z2), reply |-> Len(z) - Len(z2)]
    [] cmd.op = "zcard" ->
         [store |-> store, reply |-> ZCard(z)]
    [] cmd.op = "zadd" ->
         [store |-> PutZSet(store, cmd.key, ZAdd(z, cmd.a)), reply |-> 1]
    [] cmd.op = "del" ->
         [store |-> Del(store, cmd.key),
          reply |-> IF cmd.key \in DOMAIN store.zsets THEN 1 ELSE 0]
    [] cmd.op = "expire" ->
         IF cmd.key \in DOMAIN store.zsets
         THEN [store |-> [store EXCEPT !.ttl =
                            [k \in DOMAIN store.ttl \cup {cmd.key} |->
                               IF k = cmd.key THEN t + cmd.a * MsPerSec
                               ELSE store.ttl[k]]],
               reply |-> 1]
         ELSE [store |-> store, reply |-> 0]
    [] cmd.op = "keys" ->
         [store |-> store,
          reply |-> {k \in DOMAIN store.zsets : MatchesPattern(k, cmd.key)}]

\* ------------------------------------------------------------------ Init
Init ==
  /\ clock = 0
  /\ redis = EmptyStore
  /\ conn = [p \in Procs |-> <<>>]
  /\ call = [c \in Callers |-> Idle]
  /\ hist = <<>>
  /\ policy \in {[limit |-> l, windowMs |-> w] : l \in 1..MaxLimit, w \in WindowChoices}
  /\ faults = 0
  /\ solo = [i \in Identifiers \cup GuardIdentifiers |-> EmptyStore]
  /\ handled = <<>>
  /\ infos = <<>>
  /\ resets = <<>>
  /\ circuitBreakers = <<>>
  /\ exec = [r \in Requests |-> NoOperation]
  /\ streak = [n \in DependencyNames |-> 0]
  /\ probes = [n \in DependencyNames |-> 0]
  /\ failures = [n \in DependencyNames |-> 0]
  /\ invoked = 0
  /\ started = 0
  /\ raised = [r \in Requests |-> Undefined]
  /\ firstOptions = <<>>
  /\ otherOptions = [n \in DependencyNames |-> FALSE]
  /\ resetLog = [n \in DependencyNames |-> NoReset]
  /\ status = Undefined
  /\ letThrough = [n \in DependencyNames |-> 0]
  /\ database = {}
  /\ runner = NewQueryRunner
  /\ txn = NoTransaction

\* --------------------------------------------------------------- actions
\* Lines 47-72: merge the options, build the key, read the clock, queue the
\* four commands and call exec(). exec() either writes the batch to the
\* connection (pending), resolves to null, or rejects.
CheckRateLimitCall(c, identifier, options, how) ==
  /\ call[c].pc = "idle"
  /\ how /= "pending" => faults < MaxFaults
  /\ LET opts == MergeOptions(defaultOptions, options)
         key == Key(opts, identifier)
         now == clock
         n == Len(hist) + 1
     IN /\ call' = [call EXCEPT ![c] =
                      [pc |-> "awaiting", kind |-> "check", need |-> 4,
                       identifier |-> identifier, opts |-> opts,
                       key |-> key, now |-> now, seq |-> n, exec |-> how,
                       late |-> FALSE, results |-> <<>>, soloResults |-> <<>>]]
        /\ conn' = IF how = "pending"
                   THEN [conn EXCEPT ![ProcOf(c)] =
                           @ \o [i \in 1..4 |-> [caller |-> c, cmd |-> Pipeline(key, now, opts)[i]]]]
                   ELSE conn
        /\ hist' = Append(hist, [identifier |-> identifier, now |-> now, exec |-> how,
                                 done |-> FALSE, healthy |-> how = "pending",
                                 prompt |-> TRUE])
        /\ faults' = IF how = "pending" THEN faults ELSE faults + 1
  /\ UNCHANGED <<clock, redis, policy, solo>>
  /\ UNCHANGED cbState

\* A call with the one policy of the behaviour.
CheckRateLimitBegin(c, identifier, how) ==
  Len(hist) < MaxCalls /\ CheckRateLimitCall(c, identifier, policy, how)

\* The store executes the next command of one connection, at its own time
\* (late: after the clock value the call read). ok = FALSE: the command fails
\* with an error reply and changes nothing.
StoreExec(p, ok) ==
  /\ conn[p] /= <<>>
  /\ ~ok => faults < MaxFaults
  /\ LET item == Head(conn[p])
         c == item.caller
         r == ApplyCmd(redis, item.cmd, clock)
         mine == IF call[c].kind = "cleanup" THEN DOMAIN solo ELSE {call[c].identifier}
         s == [i \in mine |-> ApplyCmd(solo[i], item.cmd, clock)]
         alone == IF call[c].kind = "cleanup" THEN r.reply ELSE s[call[c].identifier].reply
     IN /\ conn' = [conn EXCEPT ![p] = Tail(@)]
        /\ redis' = IF ok THEN r.store ELSE redis
        /\ solo' = IF ok THEN [i \in DOMAIN solo |-> IF i \in mine THEN s[i].store ELSE solo[i]]
                   ELSE solo
        /\ call' = [call EXCEPT
                      ![c].late = @ \/ clock > call[c].now,
                      ![c].results =
                         Append(@, IF ok THEN ReplyEntry(item.cmd, r.reply) ELSE ErrEntry),
                      ![c].soloResults =
                         Append(@, IF ok THEN ReplyEntry(item.cmd, alone) ELSE ErrEntry)]
        /\ hist' = IF call[c].kind /= "check" THEN hist
                   ELSE [hist EXCEPT ![call[c].seq].healthy = @ /\ ok,
                                     ![call[c].seq].prompt = @ /\ clock = call[c].now]
        /\ faults' = IF ok THEN faults ELSE faults + 1
  /\ UNCHANGED <<clock, policy>>
  /\ UNCHANGED cbState

\* Lines 72-103: exec() settled; the call computes its result and returns.
CheckRateLimitEnd(c) ==
  /\ Settled(c)
  /\ call[c].kind = "check"
  /\ LET k == call[c]
         out == IF k.exec = "rejected"
                THEN CatchResult(k.opts, clock)
                ELSE Returned(ResultOf(k.opts, k.now, k.results, clock))
     IN hist' = [hist EXCEPT ![k.seq] =
                   [identifier |-> k.identifier, now |-> k.now, exec |-> k.exec,
                    done |-> TRUE, healthy |-> @.healthy, prompt |-> @.prompt,
                    alone |-> k.results = k.soloResults,
                    count |-> IF k.exec = "pending"
                              THEN EntryValue(k.results[2]) ELSE Undefined,
                    threw |-> out.threw, result |-> out.result]]
  /\ call' = [call EXCEPT ![c] = Idle]
  /\ UNCHANGED <<clock, redis, conn, policy, faults, solo>>
  /\ UNCHANGED cbState

\* Time passes, also while calls are in flight; keys whose TTL ran out
\* disappear from the store.
Tick ==
  /\ clock + TickMs <= MaxTime
  /\ clock' = clock + TickMs
  /\ redis' = Purge(redis, clock')
  /\ solo' = [i \in DOMAIN solo |-> Purge(solo[i], clock')]
  /\ UNCHANGED <<conn, call, hist, policy, faults>>
  /\ UNCHANGED cbState

ExecOutcomes == {"pending", "null", "rejected"}

\* getRateLimitInfo, lines 106-118: merge the options, build the key, read
\* the clock, queue the two commands and call exec(). exec() either writes
\* the batch to the connection (pending), resolves to null, or rejects.
GetRateLimitInfoBegin(c, identifier, how) ==
  /\ call[c].pc = "idle"
  /\ Len(infos) < MaxInfos
  /\ how /= "pending" => faults < MaxFaults
  /\ LET opts == MergeOptions(defaultOptions, policy)
         key == Key(opts, identifier)
         now == clock
         cmds == InfoPipeline(key, now, opts)
     IN /\ call' = [call EXCEPT ![c] =
                      [pc |-> "awaiting", kind |-> "info", need |-> Len(cmds),
                       identifier |-> identifier, opts |-> opts,
                       key |-> key, now |-> now, seq |-> Len(infos) + 1,
                       exec |-> how, late |-> FALSE,
                       results |-> <<>>, soloResults |-> <<>>]]
        /\ conn' = IF how = "pending"
                   THEN [conn EXCEPT ![ProcOf(c)] =
                           @ \o [i \in 1..Len(cmds) |-> [caller |-> c, cmd |-> cmds[i]]]]
                   ELSE conn
        /\ infos' = Append(infos, [identifier |-> identifier, now |-> now,
                                   after |-> Len(hist), exec |-> how, done |-> FALSE])
        /\ faults' = IF how = "pending" THEN faults ELSE faults + 1
  /\ UNCHANGED <<clock, redis, hist, policy, solo, handled, resets>>
  /\ UNCHANGED cbState
  /\ UNCHANGED txState

\* getRateLimitInfo, lines 118-137: exec() settled; the call returns the
\* budget it read, or the fail-open result when exec() rejected or resolved
\* to fewer than two replies.
GetRateLimitInfoEnd(c) ==
  /\ Settled(c)
  /\ call[c].kind = "info"
  /\ LET k == call[c]
     IN infos' = [infos EXCEPT ![k.seq] =
                    [identifier |-> k.identifier, now |-> k.now, after |-> @.after,
                     exec |-> k.exec, done |-> TRUE, prompt |-> ~k.late,
                     healthy |-> \A i \in 1..Len(k.results) : k.results[i] /= ErrEntry,
                     result |-> IF k.exec = "rejected"
                                THEN CatchResult(k.opts, clock).result
                                ELSE InfoResultOf(k.opts, k.now, k.results, clock)]]
  /\ call' = [call EXCEPT ![c] = Idle]
  /\ UNCHANGED <<clock, redis, conn, hist, policy, faults, solo, handled, resets>>
  /\ UNCHANGED cbState
  /\ UNCHANGED txState

\* resetRateLimit, lines 140-145: build the key and send DEL; the command is
\* written to the connection (pending) or its promise rejects.
ResetRateLimitBegin(c, identifier, how) ==
  /\ call[c].pc = "idle"
  /\ Len(resets) < MaxResets
  /\ LET opts == MergeOptions(defaultOptions, policy)
         key == Key(opts, identifier)
     IN /\ call' = [call EXCEPT ![c] =
                      [pc |-> "awaiting", kind |-> "reset", need |-> 1,
                       identifier |-> identifier, opts |-> opts,
                       key |-> key, now |-> clock, seq |-> Len(resets) + 1,
                       exec |-> how, late |-> FALSE, results |-> <<>>, soloResults |-> <<>>]]
        /\ conn' = IF how = "pending"
                   THEN [conn EXCEPT ![ProcOf(c)] =
                           Append(@, [caller |-> c,
                                      cmd |-> [op |-> "del", key |-> key, a |-> 0, b |-> 0]])]
                   ELSE conn
        /\ resets' = Append(resets, [identifier |-> identifier, after |-> Len(hist),
                                     exec |-> how, done |-> FALSE, threw |-> FALSE])
  /\ UNCHANGED <<clock, redis, hist, policy, faults, solo, handled, infos>>
  /\ UNCHANGED cbState
  /\ UNCHANGED txState

\* resetRateLimit, lines 145-150: DEL settled; a rejection is caught and
\* logged, the call returns nothing either way.
ResetRateLimitEnd(c) ==
  /\ Settled(c)
  /\ call[c].kind = "reset"
  /\ resets' = [resets EXCEPT ![call[c].seq].done = TRUE,
                              ![call[c].seq].threw = FALSE]
  /\ call' = [call EXCEPT ![c] = Idle]
  /\ UNCHANGED <<clock, redis, conn, hist, policy, faults, solo, handled, infos>>
  /\ UNCHANGED cbState
  /\ UNCHANGED txState

\* cleanupExpiredKeys, lines 152-157: KEYS rate_limit:* is written to the
\* connection (pending) or its promise rejects.
CleanupExpiredKeysBegin(c, how) ==
  /\ call[c].pc = "idle"
  /\ how /= "pending" => faults < MaxFaults
  /\ call' = [call EXCEPT ![c] =
                [pc |-> "awaiting", kind |-> "cleanup", stage |-> "keys", need |-> 1,
                 identifier |-> "", opts |-> defaultOptions,
                 key |-> defaultOptions.keyPrefix, now |-> clock, seq |-> 0,
                 exec |-> how, late |-> FALSE, results |-> <<>>, soloResults |-> <<>>]]
  /\ conn' = IF how = "pending"
             THEN [conn EXCEPT ![ProcOf(c)] =
                     Append(@, [caller |-> c,
                                cmd |-> [op |-> "keys", key |-> defaultOptions.keyPrefix,
                                         a |-> 0, b |-> 0]])]
             ELSE conn
  /\ faults' = IF how = "pending" THEN faults ELSE faults + 1
  /\ UNCHANGED <<clock, redis, hist, policy, solo, handled, infos, resets>>
  /\ UNCHANGED cbState
  /\ UNCHANGED txState

\* The sequences that list every element of the set S once.
Orderings(S) ==
  {q \in [1..Cardinality(S) -> S] : \A i, j \in DOMAIN q : q[i] = q[j] => i = j}

\* cleanupExpiredKeys, lines 157-164: KEYS settled. A rejection is caught
\* and logged and an empty list ends the call; for a list of keys, in the
\* order the store listed them, EXPIRE key ceil(defaultOptions.windowMs / 1000)
\* is queued for each and exec() called.
CleanupExpiredKeysExpire(c, how) ==
  /\ Settled(c)
  /\ call[c].kind = "cleanup" /\ call[c].stage = "keys"
  /\ LET k == call[c]
         failed == k.exec = "rejected" \/ k.results[1] = ErrEntry
         keys == IF failed THEN {} ELSE k.results[1][2][2]
     IN IF keys = {}
        THEN /\ how = "pending"
             /\ call' = [call EXCEPT ![c] = Idle]
             /\ UNCHANGED <<conn, faults>>
        ELSE /\ how /= "pending" => faults < MaxFaults
             /\ \E order \in Orderings(keys) :
                  /\ call' = [call EXCEPT ![c] =
                                [k EXCEPT !.stage = "expire", !.need = Len(order),
                                          !.exec = how, !.results = <<>>,
                                          !.soloResults = <<>>]]
                  /\ conn' = IF how = "pending"
                             THEN [conn EXCEPT ![ProcOf(c)] =
                                     @ \o [i \in 1..Len(order) |->
                                             [caller |-> c,
                                              cmd |-> [op |-> "expire", key |-> order[i],
                                                       a |-> CeilDiv(defaultOptions.windowMs,
                                                                     MsPerSec),
                                                       b |-> 0]]]]
                             ELSE conn
             /\ faults' = IF how = "pending" THEN faults ELSE faults + 1
  /\ UNCHANGED <<clock, redis, hist, policy, solo, handled, infos, resets>>
  /\ UNCHANGED cbState
  /\ UNCHANGED txState

\* cleanupExpiredKeys, lines 164-169: exec() settled; a rejection is caught
\* and logged, the call returns nothing either way.
CleanupExpiredKeysEnd(c) ==
  /\ Settled(c)
  /\ call[c].kind = "cleanup" /\ call[c].stage = "expire"
  /\ call' = [call EXCEPT ![c] = Idle]
  /\ UNCHANGED <<clock, redis, conn, hist, policy, faults, solo, handled, infos, resets>>
  /\ UNCHANGED cbState
  /\ UNCHANGED txState

\* Callers of every process, store in good health: the pipelines of different
\* connections interleave command by command.
Next ==
  /\ \/ \E c \in Callers, i \in Identifiers :
          Len(hist) < MaxShortCalls /\ CheckRateLimitBegin(c, i, "pending")
     \/ \E p \in Procs : StoreExec(p, TRUE)
     \/ \E c \in Callers : CheckRateLimitEnd(c)
     \/ Tick
  /\ UNCHANGED <<handled, infos, resets, txState>>

Spec == Init /\ [][Next]_vars

\* One process, store in good health: every pipeline goes through the same
\* connection, one call after another.
NextOne ==
  /\ \/ \E c \in CallersOf("p1"), i \in Identifiers : CheckRateLimitBegin(c, i, "pending")
     \/ StoreExec("p1", TRUE)
     \/ \E c \in CallersOf("p1") : CheckRateLimitEnd(c)
     \/ Tick
  /\ UNCHANGED <<handled, infos, resets, txState>>

SpecOne == Init /\ [][NextOne]_vars

\* One client that calls again and again, each call after the one before
\* has returned, in a process that runs cleanupExpiredKeys now and then.
NextBurst ==
  /\ \/ Len(hist) < MaxBurstCalls
          /\ CheckRateLimitCall(<<"p1", 1>>, "a", policy, "pending")
     \/ StoreExec("p1", TRUE)
     \/ CheckRateLimitEnd(<<"p1", 1>>)
     \/ \E how \in {"pending", "rejected"} : CleanupExpiredKeysBegin(<<"p1", 2>>, how)
     \/ \E how \in ExecOutcomes : CleanupExpiredKeysExpire(<<"p1", 2>>, how)
     \/ CleanupExpiredKeysEnd(<<"p1", 2>>)
     \/ Tick
  /\ UNCHANGED <<handled, infos, resets, txState>>

SpecBurst == Init /\ [][NextBurst]_vars

\* One process: one caller checks the budget of a client while another
\* reads it.
NextInfo ==
  /\ \/ /\ \/ Len(hist) < MaxShortCalls
                /\ CheckRateLimitBegin(<<"p1", 1>>, "a", "pending")
           \/ StoreExec("p1", TRUE)
           \/ CheckRateLimitEnd(<<"p1", 1>>)
           \/ Tick
        /\ UNCHANGED <<handled, infos, resets, txState>>
     \/ \E how \in ExecOutcomes : GetRateLimitInfoBegin(<<"p1", 2>>, "a", how)
     \/ GetRateLimitInfoEnd(<<"p1", 2>>)

SpecInfo == Init /\ [][NextInfo]_vars

\* One process whose callers check the budget and reset it.
NextReset ==
  /\ \/ /\ \/ \E c \in CallersOf("p1"), i \in Identifiers :
                Len(hist) < MaxShortCalls /\ CheckRateLimitBegin(c, i, "pending")
           \/ StoreExec("p1", TRUE)
           \/ \E c \in CallersOf("p1") : CheckRateLimitEnd(c)
           \/ Tick
        /\ UNCHANGED <<handled, infos, resets, txState>>
     \/ \E c \in CallersOf("p1"), i \in Identifiers, how \in {"pending", "rejected"} :
          ResetRateLimitBegin(c, i, how)
     \/ \E c \in CallersOf("p1") : ResetRateLimitEnd(c)

SpecReset == Init /\ [][NextReset]_vars

\* One process and a store that can fail: exec() may reject or resolve to
\* null, and a command may come back with an error.
NextFaulty ==
  /\ \/ \E c \in CallersOf("p1"), i \in Identifiers, how \in ExecOutcomes :
          Len(hist) < MaxFaultyCalls /\ CheckRateLimitBegin(c, i, how)
     \/ \E ok \in BOOLEAN : StoreExec("p1", ok)
     \/ \E c \in CallersOf("p1") : CheckRateLimitEnd(c)
     \/ Tick
  /\ UNCHANGED <<handled, infos, resets, txState>>

SpecFaulty == Init /\ [][NextFaulty]_vars

\* canActivate up to `await checkRateLimit(...)`: a handler without
\* annotation is let through at once, for one with an annotation the check
\* is started for the client's identifier.
CanActivateBegin(c, request, route) ==
  /\ Len(handled) < MaxRequests
  /\ LET entry == [route |-> route, identifier |-> IdentifierOf[request],
                   caller |-> c, check |-> 0, outcome |-> "pending",
                   headers |-> <<>>, body |-> Undefined]
     IN IF ~HasAnnotation(route)
        THEN /\ call[c].pc = "idle"
                        /\ handled' = Append(handled, [entry EXCEPT !.outcome = "true"])
             /\ UNCHANGED <<clock, redis, conn, call, hist, policy, faults, solo>>
             /\ UNCHANGED cbState
        ELSE /\ CheckRateLimitBegin(c, entry.identifier, "pending")
             /\ handled' = Append(handled, [entry EXCEPT !.check = Len(hist) + 1])

\* canActivate, lines 27-48: the check of request k has returned and
\* canActivate resumes with its result.
CanActivateEnd(k) ==
  /\ handled[k].outcome = "pending"
  /\ hist[handled[k].check].done
  /\ handled' = [handled EXCEPT ![k] = GuardDecision(@, hist[handled[k].check].result)]
  /\ UNCHANGED <<clock, redis, conn, call, hist, policy, faults, solo>>
  /\ UNCHANGED cbState

\* canActivate for a handler with an annotation, up to
\* `await checkRateLimit(identifier, rateLimitOptions)`.
CanActivateRouteBegin(c, request, route) ==
  /\ Len(handled) < MaxRequests
  /\ CheckRateLimitCall(c, IdentifierOf[request], RateLimitOptionsOf(route), "pending")
  /\ handled' = Append(handled,
                       [route |-> route, identifier |-> IdentifierOf[request],
                        caller |-> c, check |-> Len(hist) + 1, outcome |-> "pending",
                        headers |-> <<>>, body |-> Undefined])

\* The route with an annotation is limited to one request per second.
InitGuard == Init /\ policy = [limit |-> 1, windowMs |-> MsPerSec]

\* Requests of two clients to two rate-limited routes reach the guard of one
\* process, one at a time.
NextRoutes ==
  /\ \/ \E q \in HttpRequests, route \in LimitedRoutes :
          CanActivateRouteBegin(<<"p1", 1>>, q, route)
     \/ StoreExec("p1", TRUE) /\ UNCHANGED handled
     \/ CheckRateLimitEnd(<<"p1", 1>>) /\ UNCHANGED handled
     \/ \E k \in DOMAIN handled : CanActivateEnd(k)
     \/ Tick /\ UNCHANGED handled
  /\ UNCHANGED <<infos, resets, txState>>

SpecRoutes == InitGuard /\ [][NextRoutes]_vars

\* Requests of two clients reach the guard of one process.
NextGuard ==
  /\ \/ \E c \in CallersOf("p1"), q \in HttpRequests, route \in Routes :
          CanActivateBegin(c, q, route)
     \/ StoreExec("p1", TRUE) /\ UNCHANGED handled
     \/ \E c \in CallersOf("p1") : CheckRateLimitEnd(c) /\ UNCHANGED handled
     \/ \E k \in DOMAIN handled : CanActivateEnd(k)
     \/ Tick /\ UNCHANGED handled
  /\ UNCHANGED <<infos, resets, txState>>

SpecGuard == InitGuard /\ [][NextGuard]_vars

\* The counters of calls made and operations invoked count up to MaxExecs.
Tally(n) == IF n < MaxExecs THEN n + 1 ELSE n

\* CircuitBreakerService.execute up to `await operation()`: look the breaker
\* up (creating it on first use), reject when it is OPEN and not yet due for
\* a probe, otherwise invoke the operation.
ExecuteCall(r, name, options) ==
  /\ exec[r].pc = "idle"
  /\ LET registry == GetOrCreateCircuitBreaker(circuitBreakers, name, options, clock)
         a == Admit(registry[name], clock)
     IN /\ circuitBreakers' = [registry EXCEPT ![name] = a.breaker]
        /\ exec' = [exec EXCEPT ![r] =
                      IF a.rejected
                      THEN [pc |-> "idle", last |-> "circuit_open"]
                      ELSE [pc |-> "running", last |-> "none", name |-> name]]
        /\ invoked' = IF a.rejected THEN invoked ELSE Tally(invoked)
        /\ probes' = IF registry[name].state = "OPEN" /\ ~a.rejected
                     THEN [probes EXCEPT ![name] = 0] ELSE probes
        /\ raised' = [raised EXCEPT ![r] =
                        IF a.rejected THEN CircuitOpenError(name) ELSE Undefined]
        /\ letThrough' = [letThrough EXCEPT ![name] =
                            IF a.rejected \/ a.breaker.state /= "HALF_OPEN" THEN @
                            ELSE IF registry[name].state = "OPEN" THEN 1 ELSE @ + 1]
  /\ started' = Tally(started)
  /\ firstOptions' = IF name \in DOMAIN firstOptions
                     THEN firstOptions
                     ELSE [n \in DOMAIN firstOptions \cup {name} |->
                             IF n = name THEN options ELSE firstOptions[n]]
  /\ otherOptions' = [otherOptions EXCEPT ![name] =
                        \/ @
                        \/ name \in DOMAIN firstOptions /\ firstOptions[name] /= options]
  /\ resetLog' = [resetLog EXCEPT ![name].next =
                     IF @ /= "awaited" THEN @
                     ELSE IF Admit(GetOrCreateCircuitBreaker(
                                     circuitBreakers, name, options, clock)[name],
                                   clock).rejected
                          THEN "rejected" ELSE "invoked"]
  /\ status' = Undefined
  /\ UNCHANGED <<clock, streak, failures>>
  /\ UNCHANGED rlState
  /\ UNCHANGED txState

\* An execute call of a behaviour in which at most MaxExecs are made.
ExecuteBegin(r, name, options) == started < MaxExecs /\ ExecuteCall(r, name, options)

\* The operation resolves: onSuccess, then the result is returned.
OperationSucceeds(r) ==
  /\ exec[r].pc = "running"
  /\ LET name == exec[r].name
         b == circuitBreakers[name]
     IN /\ circuitBreakers' = [circuitBreakers EXCEPT ![name] = OnSuccess(b, clock)]
        /\ streak' = [streak EXCEPT ![name] = 0]
        /\ probes' = [probes EXCEPT ![name] = IF b.state = "HALF_OPEN" THEN @ + 1 ELSE @]
        /\ letThrough' = [letThrough EXCEPT ![name] =
                            IF OnSuccess(b, clock).state = "HALF_OPEN" THEN @ ELSE 0]
  /\ exec' = [exec EXCEPT ![r] = [pc |-> "idle", last |-> "returned"]]
  /\ resetLog' = [resetLog EXCEPT ![exec[r].name].next =
                     IF @ = "awaited" THEN "void" ELSE @]
  /\ status' = Undefined
  /\ UNCHANGED <<clock, failures, invoked, started, raised, firstOptions, otherOptions>>
  /\ UNCHANGED rlState
  /\ UNCHANGED txState

\* The operation rejects with error: onFailure, then the error is thrown
\* again.
OperationFailsWith(r, error) ==
  /\ exec[r].pc = "running"
  /\ LET name == exec[r].name
         b == circuitBreakers[name]
     IN /\ circuitBreakers' = [circuitBreakers EXCEPT ![name] = OnFailure(b, clock)]
        /\ streak' = [streak EXCEPT ![name] = @ + 1]
        /\ probes' = [probes EXCEPT ![name] = 0]
        /\ failures' = [failures EXCEPT ![name] = @ + 1]
        /\ letThrough' = [letThrough EXCEPT ![name] =
                            IF OnFailure(b, clock).state = "HALF_OPEN" THEN @ ELSE 0]
  /\ exec' = [exec EXCEPT ![r] = [pc |-> "idle", last |-> "operation_error"]]
  /\ raised' = [raised EXCEPT ![r] = error]
  /\ resetLog' = [resetLog EXCEPT ![exec[r].name].next =
                     IF @ = "awaited" THEN "void" ELSE @]
  /\ status' = Undefined
  /\ UNCHANGED <<clock, invoked, started, firstOptions, otherOptions>>
  /\ UNCHANGED rlState
  /\ UNCHANGED txState

\* The operation rejects with the dependency's error.
OperationFails(r) == OperationFailsWith(r, DependencyError)

\* CircuitBreakerService.reset(serviceName): a known breaker is reset, an
\* unknown name is left alone.
Reset(name) ==
  /\ circuitBreakers' = IF name \in DOMAIN circuitBreakers
                        THEN [circuitBreakers EXCEPT
                                ![name] = ResetCircuitBreaker(@, clock)]
                        ELSE circuitBreakers
  /\ resetLog' = IF name \in DOMAIN circuitBreakers
                 THEN [resetLog EXCEPT ![name] =
                         [from |-> circuitBreakers[name].state, next |-> "awaited"]]
                 ELSE resetLog
  /\ status' = Undefined
  /\ letThrough' = [n \in DOMAIN letThrough |-> IF n = name THEN 0 ELSE letThrough[n]]
  /\ UNCHANGED <<clock, exec, streak, probes, failures, invoked, started, raised,
                 firstOptions, otherOptions>>
  /\ UNCHANGED rlState
  /\ UNCHANGED txState

\* CircuitBreakerService.getStatus()
GetStatus ==
  /\ status' = Object(ServiceStatus(circuitBreakers))
  /\ UNCHANGED <<clock, circuitBreakers, exec, streak, probes, failures, invoked,
                 started, raised, firstOptions, otherOptions, resetLog, letThrough>>
  /\ UNCHANGED rlState
  /\ UNCHANGED txState

\* Time passes for the breakers.
ElapseBy(ms) ==
  /\ clock + ms <= MaxTime
  /\ clock' = clock + ms
  /\ UNCHANGED cbState
  /\ UNCHANGED rlState
  /\ UNCHANGED txState

Elapse == ElapseBy(TickMs)

\* Several requests call execute; their operations overlap.
NextCB ==
  \/ \E r \in Requests, n \in ServiceNames, o \in OptionChoices : ExecuteBegin(r, n, o)
  \/ \E r \in Requests : OperationSucceeds(r)
  \/ \E r \in Requests : OperationFails(r)
  \/ Elapse

SpecCB == Init /\ [][NextCB]_vars

\* One request at a time: each execute call settles before the next is made.
NextCBSeq ==
  \/ \E n \in ServiceNames, o \in OptionChoices : ExecuteBegin("r1", n, o)
  \/ OperationSucceeds("r1")
  \/ OperationFails("r1")
  \/ Elapse

SpecCBSeq == Init /\ [][NextCBSeq]_vars

\* The whole service, one request at a time: execute under several names
\* with partial options, reset, getStatus.
NextCBOps ==
  \/ \E n \in DependencyNames, o \in PartialOptionChoices :
       started < MaxOpsExecs /\ ExecuteBegin("r1", n, o)
  \/ OperationSucceeds("r1")
  \/ OperationFails("r1")
  \/ \E n \in DependencyNames : Reset(n)
  \/ GetStatus
  \/ \E ms \in RecoveryChoices : ElapseBy(ms)

SpecCBOps == Init /\ [][NextCBOps]_vars

\* One request at a time on one name, and an operator who resets the breaker.
NextCBReset ==
  \/ \E n \in ServiceNames, o \in OptionChoices : ExecuteBegin("r1", n, o)
  \/ OperationSucceeds("r1")
  \/ OperationFails("r1")
  \/ \E n \in ServiceNames : Reset(n)
  \/ Elapse

SpecCBReset == Init /\ [][NextCBReset]_vars

\* One request at a time on one name, with operations that reject with
\* different errors.
NextCBErr ==
  \/ \E n \in ServiceNames, o \in OptionChoices : ExecuteBegin("r1", n, o)
  \/ OperationSucceeds("r1")
  \/ \E e \in OperationErrors : OperationFailsWith("r1", e)
  \/ Elapse

SpecCBErr == Init /\ [][NextCBErr]_vars

\* Several requests whose operations overlap, and an operator who resets the
\* breaker at any moment.
NextCBAll ==
  \/ \E r \in Requests, n \in ServiceNames, o \in OptionChoices : ExecuteBegin(r, n, o)
  \/ \E r \in Requests : OperationSucceeds(r)
  \/ \E r \in Requests : OperationFails(r)
  \/ \E n \in ServiceNames : Reset(n)
  \/ Elapse

SpecCBAll == Init /\ [][NextCBAll]_vars

\* Time passes while a breaker waits for its recovery timeout.
ElapseWhileCooling ==
  /\ \E n \in DOMAIN circuitBreakers :
       /\ circuitBreakers[n].state = "OPEN"
       /\ IsNum(circuitBreakers[n].lastFailure)
       /\ clock - circuitBreakers[n].lastFailure[2] < circuitBreakers[n].options.recoveryTimeout
  /\ clock' = clock + TickMs
  /\ UNCHANGED cbState
  /\ UNCHANGED rlState
  /\ UNCHANGED txState

\* A process that lives on: calls arrive without end, at most MaxFailures
\* operations fail, and a CLOSED breaker that has counted MaxSuccesses
\* successes in a row is left alone.
CallArrives(r, name, options) ==
  /\ name \in DOMAIN circuitBreakers =>
       ~(circuitBreakers[name].state = "CLOSED"
         /\ circuitBreakers[name].consecutiveSuccesses >= MaxSuccesses)
  /\ ExecuteCall(r, name, options)

LastFailures(r) ==
  /\ exec[r].pc = "running"
  /\ failures[exec[r].name] < MaxFailures
  /\ OperationFails(r)

NextCBLive ==
  \/ \E r \in Requests, n \in ServiceNames, o \in OptionChoices : CallArrives(r, n, o)
  \/ \E r \in Requests : OperationSucceeds(r)
  \/ \E r \in Requests : LastFailures(r)
  \/ Elapse
  \/ ElapseWhileCooling

\* Every operation settles, calls keep arriving and time keeps advancing.
FairCBLive ==
  /\ WF_vars(\E r \in Requests, n \in ServiceNames, o \in OptionChoices : CallArrives(r, n, o))
  /\ WF_vars(\E r \in Requests : OperationSucceeds(r))
  /\ WF_vars(Elapse \/ ElapseWhileCooling)

SpecCBLive == Init /\ [][NextCBLive]_vars /\ FairCBLive

\* A step of a transaction either succeeds or rejects with an error.
StepOk == <<"ok">>
StepOutcomes == {StepOk} \cup StepErrors
\* connect(), startTransaction(), rollbackTransaction() and release() reject
\* when the connection has gone away.
LinkOutcomes == {StepOk, ConnectionGoneError}
BackoffChoices == {TickMs}
BatchActions == {"complete", "delete", "archive"}
\* new BadRequestException(`Unknown action: ${action}`)
BadRequestError ==
  DbError(<<"U", "n", "k", "n", "o", "w", "n", " ", "a", "c", "t", "i", "o", "n">>,
          Undefined)

\* A call starts its (next) executeInTransaction: a new QueryRunner.
StartAttempt(t, attempt) ==
  [t EXCEPT !.pc = "connect", !.attempt = attempt, !.written = 0,
            !.caught = Undefined, !.handover = Undefined, !.original = Undefined,
            !.tries = Append(@, [begun |-> clock, ended |-> clock,
                                 outcome |-> Undefined])]

\* executeInTransaction(operation) called on its own.
ExecuteInTransaction ==
  /\ txn.pc = "idle"
  /\ txn' = StartAttempt([txn EXCEPT !.mode = "executeInTransaction",
                                     !.total = TxWrites], 1)
  /\ runner' = NewQueryRunner
  /\ UNCHANGED <<clock, database>>
  /\ UNCHANGED <<rlState, cbState>>

\* executeWithRetry(operation, maxRetries, backoffMs): the loop runs its
\* first attempt, or not at all when maxRetries < 1.
ExecuteWithRetry(maxRetries, backoffMs) ==
  /\ txn.pc = "idle"
  /\ LET t == [txn EXCEPT !.mode = "executeWithRetry", !.total = TxWrites,
                          !.maxRetries = maxRetries, !.backoffMs = backoffMs]
     IN txn' = IF 1 <= maxRetries
               THEN StartAttempt(t, 1)
               ELSE [t EXCEPT !.pc = "done", !.outcome = AllAttemptsFailedError]
  /\ runner' = NewQueryRunner
  /\ UNCHANGED <<clock, database>>
  /\ UNCHANGED <<rlState, cbState>>

\* batchProcess({tasks, action}): an unknown action is refused before the
\* database is touched; a known one runs one bulk statement in a transaction.
BatchProcess(action) ==
  /\ txn.pc = "idle"
  /\ LET t == [txn EXCEPT !.mode = "batchProcess", !.total = 1]
     IN txn' = IF action \in BatchActions
               THEN StartAttempt(t, 1)
               ELSE [t EXCEPT !.pc = "done", !.outcome = BadRequestError]
  /\ runner' = NewQueryRunner
  /\ UNCHANGED <<clock, database>>
  /\ UNCHANGED <<rlState, cbState>>

\* The call has run to its end and hands outcome to its caller.
Finish(t, outcome) == [t EXCEPT !.pc = "done", !.outcome = outcome]

\* A step rejected with error. In executeInTransaction every step is inside
\* the try block, so the catch block runs; in batchProcess connect() and
\* startTransaction() come before the try block and their error leaves the
\* call at once, at the time of the rejection.
Caught(t, stage, error) ==
  LET f == [t EXCEPT !.faults = @ + 1] IN
  IF t.mode = "batchProcess" /\ stage \in {"connect", "start"}
  THEN Finish([f EXCEPT !.tries[Len(t.tries)].ended = clock,
                        !.tries[Len(t.tries)].outcome = error], error)
  ELSE [f EXCEPT !.pc = "rollback", !.caught = error,
                 !.original = IF stage \in {"operation", "commit"}
                              THEN <<stage, error>> ELSE @]

\* await queryRunner.connect()
Connect(outcome) ==
  /\ txn.pc = "connect"
  /\ outcome /= StepOk => txn.faults < MaxTxFaults
  /\ txn' = IF outcome = StepOk THEN [txn EXCEPT !.pc = "start"]
            ELSE Caught(txn, "connect", outcome)
  /\ UNCHANGED <<clock, database, runner>>
  /\ UNCHANGED <<rlState, cbState>>

\* await queryRunner.startTransaction()
StartTransaction(outcome) ==
  /\ txn.pc = "start"
  /\ outcome /= StepOk => txn.faults < MaxTxFaults
  /\ txn' = IF outcome = StepOk THEN [txn EXCEPT !.pc = "operation"]
            ELSE Caught(txn, "start", outcome)
  /\ runner' = IF outcome = StepOk THEN [runner EXCEPT !.active = TRUE] ELSE runner
  /\ UNCHANGED <<clock, database>>
  /\ UNCHANGED <<rlState, cbState>>

\* The operation runs its next statement inside the transaction.
OperationStep(outcome) ==
  /\ txn.pc = "operation"
  /\ outcome /= StepOk => txn.faults < MaxTxFaults
  /\ txn' = IF outcome = StepOk
            THEN [txn EXCEPT !.written = @ + 1,
                             !.pc = IF txn.written + 1 = txn.total
                                    THEN "commit" ELSE "operation"]
            ELSE Caught(txn, "operation", outcome)
  /\ runner' = IF outcome = StepOk
               THEN [runner EXCEPT !.pending = @ \cup {txn.written + 1}]
               ELSE runner
  /\ UNCHANGED <<clock, database>>
  /\ UNCHANGED <<rlState, cbState>>

\* await queryRunner.commitTransaction()
CommitTransaction(outcome) ==
  /\ txn.pc = "commit"
  /\ outcome /= StepOk => txn.faults < MaxTxFaults
  /\ txn' = IF outcome = StepOk
            THEN [txn EXCEPT !.pc = "release", !.handover = ReturnedResult,
                             !.commits = @ + 1]
            ELSE Caught(txn, "commit", outcome)
  /\ database' = IF outcome = StepOk THEN database \cup runner.pending ELSE database
  /\ runner' = IF outcome = StepOk
               THEN [runner EXCEPT !.active = FALSE, !.pending = {}]
               ELSE runner
  /\ UNCHANGED clock
  /\ UNCHANGED <<rlState, cbState>>

\* The catch block: await queryRunner.rollbackTransaction(); throw error.
\* When the rollback rejects, its error leaves the catch block in place of
\* the one that was caught.
RollbackTransaction(outcome) ==
  /\ txn.pc = "rollback"
  /\ outcome /= StepOk => txn.faults < MaxTxFaults
  /\ txn' = [txn EXCEPT !.pc = "release",
                        !.handover = IF outcome = StepOk THEN txn.caught ELSE outcome,
                        !.faults = IF outcome = StepOk THEN @ ELSE @ + 1]
  /\ runner' = [runner EXCEPT !.active = FALSE, !.pending = {}]
  /\ UNCHANGED <<clock, database>>
  /\ UNCHANGED <<rlState, cbState>>

\* The finally block: await queryRunner.release(); then the result or the
\* error leaves executeInTransaction (batchProcess). When release() rejects,
\* its error leaves in place of either. Called on its own the call has
\* ended; in executeWithRetry the loop has yet to resume.
Release(outcome) ==
  /\ txn.pc = "release"
  /\ outcome /= StepOk => txn.faults < MaxTxFaults
  /\ runner' = IF outcome = StepOk THEN [runner EXCEPT !.released = TRUE] ELSE runner
  /\ LET handover == IF outcome = StepOk THEN txn.handover ELSE outcome
         t == [txn EXCEPT !.tries[Len(txn.tries)].ended = clock,
                          !.tries[Len(txn.tries)].outcome = handover,
                          !.handover = handover,
                          !.faults = IF outcome = StepOk THEN @ ELSE @ + 1]
     IN txn' = IF txn.mode = "executeWithRetry"
               THEN [t EXCEPT !.pc = "settled"]
               ELSE Finish(t, handover)
  /\ UNCHANGED <<clock, database>>
  /\ UNCHANGED <<rlState, cbState>>

\* executeWithRetry, lines 380-396: executeInTransaction has settled and the
\* loop resumes: it returns the result, or keeps the error and sleeps before
\* the next attempt, or breaks and throws the last error.
Resume ==
  /\ txn.pc = "settled"
  /\ LET error == txn.handover
     IN txn' =
          IF error = ReturnedResult
          THEN Finish(txn, error)
          ELSE IF IsRetryableError(error) /\ txn.attempt < txn.maxRetries
               THEN LET delay == BackoffDelay(txn.backoffMs, txn.attempt)
                    IN [txn EXCEPT !.pc = "sleep", !.lastError = error,
                                   !.waits = Append(@, delay),
                                   !.wake = clock + delay]
               ELSE Finish([txn EXCEPT !.lastError = error], error)
  /\ UNCHANGED <<clock, database, runner>>
  /\ UNCHANGED <<rlState, cbState>>

\* The timer of sleep(delay) fires, not before the delay has passed; the
\* loop goes on to its next attempt.
Wake ==
  /\ txn.pc = "sleep"
  /\ clock >= txn.wake
  /\ txn' = StartAttempt(txn, txn.attempt + 1)
  /\ runner' = NewQueryRunner
  /\ UNCHANGED <<clock, database>>
  /\ UNCHANGED <<rlState, cbState>>

\* One call of the transaction service, its steps failing or not.
NextTx ==
  \/ ExecuteInTransaction
  \/ \E m \in 0..MaxRetries, b \in BackoffChoices : ExecuteWithRetry(m, b)
  \/ \E a \in BatchActions \cup {"purge"} : BatchProcess(a)
  \/ \E o \in LinkOutcomes : Connect(o)
  \/ \E o \in LinkOutcomes : StartTransaction(o)
  \/ \E o \in StepOutcomes : OperationStep(o)
  \/ \E o \in StepOutcomes : CommitTransaction(o)
  \/ \E o \in LinkOutcomes : RollbackTransaction(o)
  \/ \E o \in LinkOutcomes : Release(o)
  \/ Resume
  \/ Wake
  \/ Elapse

SpecTx == Init /\ [][NextTx]_vars

\* ---------------------------------------------------------------- claims
\* The calls of identifier i, in the order they were started.
CallsOf(i) == LET Mine(h) == h.identifier = i IN SelectSeq(hist, Mine)
\* Call n of the history returned success = true.
Allowed(n) == hist[n].done /\ ~hist[n].threw /\ hist[n].result.success

\* C1: for a key that starts empty and a policy with limit N, the k-th of the
\* calls made one after another inside one window (less than windowMs after
\* the first) is allowed with remaining = N - k for k <= N, and the (N+1)-th
\* is rejected with remaining = 0 and retryAfter > 0 (every batch executed
\* without a fault, that of the k-th call at the time the call read the
\* clock).
C1_BudgetCountsDown ==
  \A i \in Identifiers :
    LET h == CallsOf(i) IN
    \A k \in 1..Len(h) :
      ( /\ \A j \in 1..k : h[j].done /\ h[j].healthy
        /\ h[k].prompt
        /\ h[k].now - h[1].now < policy.windowMs )
      => /\ k <= policy.limit =>
              /\ h[k].result.success
              /\ h[k].result.remaining = Num(policy.limit - k)
         /\ k = policy.limit + 1 =>
              /\ ~h[k].result.success
              /\ h[k].result.remaining = Num(0)
              /\ IsNum(h[k].result.retryAfter)
              /\ h[k].result.retryAfter[2] > 0

\* Some identifier has made limit + 1 fault-free calls inside one window.
C1_Witness ==
  \E i \in Identifiers :
    LET h == CallsOf(i) IN
    /\ Len(h) = policy.limit + 1
    /\ policy.limit >= 2
    /\ \A j \in 1..Len(h) : h[j].done /\ h[j].healthy /\ h[j].prompt
    /\ h[Len(h)].now - h[1].now < policy.windowMs
    /\ ~h[Len(h)].result.success

\* C2: whatever the interleaving of concurrent calls, the calls of one
\* identifier that return success = true with timestamps inside one window
\* (t - windowMs, t] never number more than limit (each batch executed at
\* the time its call read the clock).
C2_AtMostLimitPerWindow ==
  \A n \in DOMAIN hist :
    (Allowed(n) /\ hist[n].prompt) =>
      Cardinality({m \in DOMAIN hist :
                     /\ Allowed(m) /\ hist[m].prompt
                     /\ hist[m].identifier = hist[n].identifier
                     /\ hist[n].now - policy.windowMs < hist[m].now
                     /\ hist[m].now <= hist[n].now}) <= policy.limit

\* C3: a call whose exec() rejects, or resolves to no result array, never
\* throws: it returns success = true with remaining = limit - 1.
C3_FailOpenOnThrow ==
  \A n \in DOMAIN hist :
    hist[n].done =>
      /\ ~hist[n].threw
      /\ hist[n].exec \in {"rejected", "null"} =>
           /\ hist[n].result.success
           /\ hist[n].result.remaining = Num(policy.limit - 1)
           /\ hist[n].result.limit = policy.limit

\* An identifier whose window is full (a healthy check would reject it) was
\* let through by a call whose exec() rejected.
C3_Witness ==
  \E n \in DOMAIN hist :
    /\ hist[n].done /\ hist[n].exec = "rejected"
    /\ hist[n].now = clock
    /\ ZCard(ZSetOf(redis, Key(MergeOptions(defaultOptions, policy), hist[n].identifier)))
         >= policy.limit

\* C4: a call whose batch returned with an error in place of one command's
\* value returns exactly the fail-open result, success = true and
\* remaining = limit - 1.
C4_PartialFailureFailsOpen ==
  \A n \in DOMAIN hist :
    (hist[n].done /\ hist[n].exec = "pending" /\ ~hist[n].healthy) =>
      /\ hist[n].result.success
      /\ hist[n].result.remaining = Num(policy.limit - 1)

\* C5: an identifier that had a call rejected and then stays silent until
\* more than windowMs after its last attempt is allowed on its next call.
C5_AllowedAfterWindow ==
  \A i \in Identifiers :
    LET h == CallsOf(i) IN
    \A k \in 2..Len(h) :
      ( /\ h[k].done /\ h[k].healthy
        /\ \E j \in 1..(k - 1) : h[j].done /\ ~h[j].result.success
        /\ h[k].now - h[k - 1].now > policy.windowMs )
      => h[k].result.success

\* A rejected identifier came back after more than windowMs, while its key
\* was still alive in the store, and was allowed.
C5_Witness ==
  \E i \in Identifiers :
    LET h == CallsOf(i) IN
    /\ Len(h) >= 3
    /\ h[3].done /\ h[3].healthy
    /\ h[2].done /\ ~h[2].result.success
    /\ h[3].now - h[2].now > policy.windowMs
    /\ h[3].now - h[2].now < CeilDiv(policy.windowMs, MsPerSec) * MsPerSec
    /\ h[3].result.success

\* C6: every reply a call receives is the reply it would receive from a store
\* that never saw another identifier's commands, and the identifier's sorted
\* set is the one that store holds.
C6_Isolation ==
  /\ \A n \in DOMAIN hist : hist[n].done => hist[n].alone
  /\ \A c \in Callers : call[c].pc = "awaiting" => call[c].results = call[c].soloResults
  /\ \A i \in Identifiers :
       LET key == Key(MergeOptions(defaultOptions, policy), i)
       IN ZSetOf(redis, key) = ZSetOf(solo[i], key)

\* With limit 1, callers of different processes have checked one identifier
\* each at the same time, their batches passing through the store together:
\* the first used up its identifier's budget and the second was allowed with
\* the full budget of its own.
C6_Witness ==
  \E n, m \in DOMAIN hist :
    /\ n < m
    /\ policy.limit = 1
    /\ hist[n].identifier /= hist[m].identifier
    /\ hist[n].done /\ hist[n].result.success /\ hist[n].result.remaining = Num(0)
    /\ hist[m].done /\ hist[m].healthy
    /\ hist[m].now = hist[n].now
    /\ hist[m].result.success
    /\ hist[m].result.remaining = Num(policy.limit - 1)
    /\ \A i \in Identifiers :
         ZSetOf(redis, Key(MergeOptions(defaultOptions, policy), i)) /= <<>>

\* The breaker of name n, and whether it is known and in state st.
Breaker(n) == circuitBreakers[n]
InState(n, st) == n \in DOMAIN circuitBreakers /\ circuitBreakers[n].state = st
Threshold(n) == circuitBreakers[n].options.failureThreshold
AllSettled == \A r \in Requests : exec[r].pc = "idle"
\* The breaker of n is OPEN and its recovery timeout has not run out.
OpenAndCooling(n) ==
  /\ InState(n, "OPEN")
  /\ IsNum(Breaker(n).lastFailure)
  /\ clock - Breaker(n).lastFailure[2] < Breaker(n).options.recoveryTimeout
\* The breaker of n is OPEN and its recovery timeout has run out.
OpenAndDue(n) ==
  /\ InState(n, "OPEN")
  /\ IsNum(Breaker(n).lastFailure)
  /\ clock - Breaker(n).lastFailure[2] >= Breaker(n).options.recoveryTimeout

\* C7: a failure that settles on a CLOSED breaker opens it exactly when it is
\* the failureThreshold-th failure in a row, and an execute call made while
\* the breaker is OPEN and still cooling is rejected with the circuit-open
\* error, invokes nothing and leaves the breaker as it was.
C7_OpensAtThresholdAndRejects ==
  [][ /\ \A r \in Requests :
           (OperationFails(r) /\ InState(exec[r].name, "CLOSED")) =>
              LET n == exec[r].name IN
              (circuitBreakers'[n].state = "OPEN") <=> (streak'[n] >= Threshold(n))
      /\ \A r \in Requests, n \in ServiceNames, o \in OptionChoices :
           (OpenAndCooling(n) /\ ExecuteBegin(r, n, o)) =>
              /\ exec'[r] = [pc |-> "idle", last |-> "circuit_open"]
              /\ invoked' = invoked
              /\ circuitBreakers' = circuitBreakers
    ]_vars

\* Three failures in a row opened a breaker with failureThreshold 3, and the
\* fourth call was rejected without invoking its operation.
C7_Witness ==
  \E n \in ServiceNames :
    /\ OpenAndCooling(n)
    /\ Threshold(n) = 3
    /\ Breaker(n).failureCount = 3 /\ streak[n] = 3
    /\ started = 4 /\ invoked = 3
    /\ \E r \in Requests : exec[r].last = "circuit_open"

\* C8: an operation that fails while the breaker is HALF_OPEN moves the
\* breaker to OPEN at once.
C8_HalfOpenFailureReopens ==
  [][ \A r \in Requests :
        (OperationFails(r) /\ InState(exec[r].name, "HALF_OPEN")) =>
           circuitBreakers'[exec[r].name].state = "OPEN"
    ]_vars

\* C9: an execute call on an OPEN breaker whose recovery timeout has run out
\* moves it to HALF_OPEN and invokes the operation; a probe that succeeds
\* closes the breaker exactly when it is the ceil(failureThreshold / 2)-th
\* success in a row of that HALF_OPEN period, and the closed breaker has
\* failureCount = 0 and consecutiveSuccesses = 0.
C9_ProbesCloseAtHalfThreshold ==
  [][ /\ \A r \in Requests, n \in ServiceNames, o \in OptionChoices :
           (OpenAndDue(n) /\ ExecuteBegin(r, n, o)) =>
              /\ circuitBreakers'[n].state = "HALF_OPEN"
              /\ exec'[r].pc = "running"
              /\ invoked' = invoked + 1
      /\ \A r \in Requests :
           (OperationSucceeds(r) /\ InState(exec[r].name, "HALF_OPEN")) =>
              LET n == exec[r].name IN
              /\ (circuitBreakers'[n].state = "CLOSED")
                   <=> (probes'[n] = CeilDiv(Threshold(n), 2))
              /\ circuitBreakers'[n].state \in {"CLOSED", "HALF_OPEN"}
              /\ circuitBreakers'[n].state = "CLOSED" =>
                   /\ circuitBreakers'[n].failureCount = 0
                   /\ circuitBreakers'[n].consecutiveSuccesses = 0
    ]_vars

\* A breaker with failureThreshold 3 that opened has been closed again by its
\* second successful probe.
C9_Witness ==
  \E n \in ServiceNames :
    /\ InState(n, "CLOSED")
    /\ Threshold(n) = 3
    /\ failures[n] = 3
    /\ probes[n] = 2
    /\ AllSettled

\* C10: a success that settles on a CLOSED breaker leaves it CLOSED with
\* failureCount = 0, and a CLOSED breaker goes OPEN only on a step that makes
\* failureThreshold failures in a row.
C10_SuccessClearsFailures ==
  [][ /\ \A r \in Requests :
           (OperationSucceeds(r) /\ InState(exec[r].name, "CLOSED")) =>
              /\ circuitBreakers'[exec[r].name].failureCount = 0
              /\ circuitBreakers'[exec[r].name].state = "CLOSED"
      /\ \A n \in DOMAIN circuitBreakers :
           (Breaker(n).state = "CLOSED" /\ circuitBreakers'[n].state = "OPEN") =>
              streak'[n] >= Threshold(n)
    ]_vars

\* A breaker with failureThreshold 2 is still CLOSED after two failures or
\* more, because a success came between them.
C10_Witness ==
  \E n \in ServiceNames :
    /\ InState(n, "CLOSED")
    /\ Threshold(n) = 2
    /\ failures[n] >= 2
    /\ Breaker(n).failureCount = 1
    /\ Breaker(n).lastStateChange = 0
    /\ AllSettled

\* C11: reset(name) on a known breaker leaves it CLOSED with failureCount = 0
\* and consecutiveSuccesses = 0 whatever state it was in, and the execute call
\* that follows the reset under that name (no operation settling in between)
\* invokes its operation.
C11_ResetForcesClosed ==
  [][ \A n \in DependencyNames :
        /\ (Reset(n) /\ n \in DOMAIN circuitBreakers) =>
              /\ circuitBreakers'[n].state = "CLOSED"
              /\ circuitBreakers'[n].failureCount = 0
              /\ circuitBreakers'[n].consecutiveSuccesses = 0
        /\ resetLog[n].next = "awaited" =>
              \A r \in Requests, o \in OptionChoices :
                 ExecuteBegin(r, n, o) =>
                    /\ exec'[r].pc = "running"
                    /\ invoked' = invoked + 1
                    /\ resetLog'[n].next = "invoked"
    ]_vars

\* A breaker with failureThreshold 1 that was OPEN and still cooling was
\* reset, and the call made right after the reset invoked its operation.
C11_Witness ==
  \E n \in ServiceNames :
    /\ resetLog[n] = [from |-> "OPEN", next |-> "invoked"]
    /\ Threshold(n) = 1
    /\ clock < Breaker(n).options.recoveryTimeout
    /\ started = 2 /\ invoked = 2

\* Resets have been made on a HALF_OPEN breaker (after one of the two probes
\* it needs) and the call that followed invoked its operation.
C11_WitnessHalfOpen ==
  \E n \in ServiceNames :
    /\ resetLog[n] = [from |-> "HALF_OPEN", next |-> "invoked"]
    /\ Threshold(n) = 3

\* C12: the registry holds one breaker for each name execute was called with
\* and for no other; its options are those of the first call under the name
\* merged over the defaults, whatever later calls passed; and a step changes
\* the breaker of a name only if it is a call made under that name (execute,
\* the settling of its operation, reset).
C12_FirstOptionsWin ==
  [][ /\ DOMAIN circuitBreakers' = DOMAIN firstOptions'
      /\ \A n \in DOMAIN circuitBreakers' :
           circuitBreakers'[n].options = MergeOptions(cbDefaultOptions, firstOptions'[n])
      /\ \A n \in DOMAIN circuitBreakers :
           /\ circuitBreakers'[n].options = circuitBreakers[n].options
           /\ circuitBreakers'[n] /= circuitBreakers[n] =>
                \/ \E r \in Requests, o \in PartialOptionChoices : ExecuteBegin(r, n, o)
                \/ \E r \in Requests :
                     /\ exec[r].pc = "running" /\ exec[r].name = n
                     /\ OperationSucceeds(r) \/ OperationFails(r)
                \/ Reset(n)
    ]_vars

\* A breaker created by a call without options (threshold 5, timeout 30000)
\* keeps them after a later call under its name that passed a threshold and a
\* timeout of its own, while a breaker of another name has opened.
C12_Witness ==
  \E n, m \in DOMAIN circuitBreakers :
    /\ n /= m
    /\ firstOptions[n] = <<>>
    /\ otherOptions[n]
    /\ Breaker(n).options.failureThreshold = 5
    /\ Breaker(n).options.recoveryTimeout = 30000
    /\ Breaker(n).state = "CLOSED"
    /\ Breaker(m).state = "OPEN"

\* What a caller of execute can go by to recognise the circuit-open
\* rejection of name n: constructor name and message of the error it caught.
LooksCircuitOpen(error, n) == error = CircuitOpenError(n)

\* C13: when the operation rejects, the step that records the failure in the
\* breaker (failureCount, lastFailure, possible transition to OPEN) hands the
\* operation's own error to the caller; and an error that the caller takes
\* for the circuit-open rejection is raised only by a call that did not
\* invoke its operation.
C13_ErrorsKeptApart ==
  [][ \A r \in Requests :
        /\ \A e \in OperationErrors :
             (exec[r].pc = "running" /\ OperationFailsWith(r, e)) =>
                LET n == exec[r].name IN
                /\ raised'[r] = e
                /\ circuitBreakers'[n].failureCount = circuitBreakers[n].failureCount + 1
                /\ circuitBreakers'[n].lastFailure = Num(clock)
                /\ circuitBreakers'[n].failureCount >= Threshold(n)
                     => circuitBreakers'[n].state = "OPEN"
        /\ \A n \in ServiceNames :
             (raised'[r] /= raised[r] /\ LooksCircuitOpen(raised'[r], n)) =>
                /\ exec[r].pc = "idle"
                /\ invoked' = invoked
    ]_vars

\* The first half of C13 alone: a failing operation's error reaches the caller
\* unchanged, in the step that records the failure.
OperationErrorReraised ==
  [][ \A r \in Requests, e \in OperationErrors :
        (exec[r].pc = "running" /\ OperationFailsWith(r, e)) =>
           /\ raised'[r] = e
           /\ circuitBreakers'[exec[r].name].failureCount
                = circuitBreakers[exec[r].name].failureCount + 1
           /\ circuitBreakers'[exec[r].name].lastFailure = Num(clock)
    ]_vars

\* C14: the object getStatus() returns has an entry for every name execute
\* has been called with and for no other name; each entry holds the state,
\* failureCount and lastFailure the breaker has at that moment; and the call
\* changes no breaker.
C14_StatusIsSnapshot ==
  [][ (IsObject(status') /\ clock' = clock) =>
        /\ DOMAIN status'[2] = DOMAIN firstOptions
        /\ \A n \in DOMAIN status'[2] :
             /\ DOMAIN status'[2][n] = {"state", "failureCount", "lastFailure"}
             /\ status'[2][n].state = circuitBreakers[n].state
             /\ status'[2][n].failureCount = circuitBreakers[n].failureCount
             /\ status'[2][n].lastFailure = circuitBreakers[n].lastFailure
        /\ circuitBreakers' = circuitBreakers
        /\ exec' = exec
    ]_vars

\* getStatus() was called while a probe was in flight: it returned one entry,
\* for the only name in use, showing HALF_OPEN with failureCount 1 and the
\* time of the failure.
C14_Witness ==
  /\ IsObject(status)
  /\ \E n \in DependencyNames :
       /\ DOMAIN status[2] = {n}
       /\ status[2][n] = [state |-> "HALF_OPEN", failureCount |-> 1,
                          lastFailure |-> Num(0)]
       /\ exec["r1"].pc = "running"
       /\ clock = 1000

\* The requests the guard has decided on a handler with an annotation.
Decided == {k \in DOMAIN handled : handled[k].check > 0 /\ handled[k].outcome /= "pending"}

\* C15: every request the guard has decided on a rate-limited handler has
\* the three X-RateLimit headers set on its response, whether it was let
\* through or refused with 429.
C15_HeadersOnEveryDecision ==
  \A k \in Decided : DOMAIN handled[k].headers = HeaderNames

\* C16: a request for a handler without annotation is let through in one
\* step that starts no check and leaves the store, the connections and the
\* log of checks as they are; a request for a handler with an annotation is
\* let through exactly when its check returned success = true and is refused
\* with status 429 otherwise.
C16_AnnotationDecides ==
  [][ /\ \A c \in Callers, q \in HttpRequests, route \in Routes :
           (~HasAnnotation(route) /\ CanActivateBegin(c, q, route)) =>
              /\ handled'[Len(handled')].outcome = "true"
              /\ handled'[Len(handled')].check = 0
              /\ UNCHANGED <<redis, conn, call, hist>>
      /\ \A k \in DOMAIN handled' :
           /\ HasAnnotation(handled'[k].route) <=> handled'[k].check > 0
           /\ (handled'[k].check > 0 /\ handled'[k].outcome /= "pending") =>
                LET result == hist'[handled'[k].check].result IN
                /\ hist'[handled'[k].check].identifier = handled'[k].identifier
                /\ handled'[k].outcome = (IF result.success THEN "true" ELSE "429")
                /\ ~result.success => handled'[k].body.status = 429
    ]_vars

\* A client that was refused with 429 on the login handler is then let
\* through on the handler without annotation, and a last allowed login of the
\* other client used up its budget (remaining 0).
C16_Witness ==
  \E i, j, k \in DOMAIN handled :
    /\ i < j
    /\ handled[i].route = "POST /auth/login" /\ handled[i].outcome = "429"
    /\ handled[j].route = "GET /users" /\ handled[j].outcome = "true"
    /\ handled[j].identifier = handled[i].identifier
    /\ handled[k].route = "POST /auth/login" /\ handled[k].outcome = "true"
    /\ handled[k].headers["X-RateLimit-Remaining"] = Num(0)

\* The writes of one operation of executeInTransaction, and of batchProcess.
AllWrites == 1..txn.total
\* An executeInTransaction or batchProcess call has run to its end.
TransactionOver ==
  txn.pc = "done" /\ txn.mode \in {"executeInTransaction", "batchProcess"}

\* C17: executeInTransaction and batchProcess commit all the writes of the
\* operation or none; when a step inside the transaction (a statement of the
\* operation, the commit) has failed, nothing is committed and the error the
\* caller gets is the error of that step.
C17_AllOrNothingOriginalError ==
  /\ txn.mode \in {"executeInTransaction", "batchProcess"} =>
        database \in {{}, AllWrites}
  /\ TransactionOver =>
        /\ txn.outcome = ReturnedResult <=> database = AllWrites
        /\ txn.original /= Undefined =>
              /\ database = {}
              /\ txn.commits = 0
              /\ txn.outcome = txn.original[2]

\* The part of C17 that is about the data: all the writes or none, all when
\* the call returns and none when a step inside the transaction failed.
CommitsAllOrNothing ==
  /\ txn.mode \in {"executeInTransaction", "batchProcess"} =>
        database \in {{}, AllWrites}
  /\ TransactionOver =>
        /\ txn.outcome = ReturnedResult => database = AllWrites
        /\ txn.original /= Undefined => database = {} /\ txn.commits = 0

\* The errors of StepErrors that the allow-list of isRetryableError covers:
\* by its code, or by a code quoted in its message.
InAllowList(error) == error \in {DeadlockError, LockTimeoutError}

\* C18: executeWithRetry makes its attempts one after another and at most
\* maxRetries of them; after failed attempt a it sleeps exactly when the error
\* is in the allow-list and a < maxRetries, for backoffMs * 2^(a-1), and the
\* next attempt begins no sooner than that; any other error ends the call
\* with that error, without a wait and without a further attempt.
C18_BackoffSchedule ==
  txn.mode = "executeWithRetry" =>
    LET tries == txn.tries
        over(a) == a < Len(tries) \/ txn.pc \in {"sleep", "done"}
        failed(a) == over(a) /\ tries[a].outcome /= ReturnedResult
    IN /\ Len(tries) <= txn.maxRetries
       /\ Len(txn.waits) <= Len(tries)
       /\ \A a \in 1..Len(tries) :
            /\ failed(a) =>
                 ((a <= Len(txn.waits)) <=> (InAllowList(tries[a].outcome) /\ a < txn.maxRetries))
            /\ (over(a) /\ ~failed(a)) =>
                 a = Len(tries) /\ Len(txn.waits) = a - 1
            /\ a <= Len(txn.waits) =>
                 /\ a = 1 => txn.waits[a] = txn.backoffMs
                 /\ a > 1 => txn.waits[a] = 2 * txn.waits[a - 1]
            /\ a < Len(tries) =>
                 /\ a <= Len(txn.waits)
                 /\ tries[a + 1].begun >= tries[a].ended + txn.waits[a]
       /\ txn.pc = "done" =>
            /\ Len(tries) = 0 => txn.maxRetries = 0
            /\ Len(tries) > 0 =>
                 /\ txn.outcome = tries[Len(tries)].outcome
                 /\ Len(txn.waits) = Len(tries) - 1

\* executeWithRetry with maxRetries 3 has made three attempts, the first two
\* failing with errors of the allow-list (one by code, one by message), and
\* slept backoffMs and then twice as long between them.
C18_Witness ==
  /\ txn.mode = "executeWithRetry" /\ txn.pc = "done"
  /\ txn.maxRetries = 3
  /\ Len(txn.tries) = 3
  /\ txn.tries[1].outcome = DeadlockError
  /\ txn.tries[2].outcome = LockTimeoutError
  /\ txn.waits = <<TickMs, 2 * TickMs>>
  /\ txn.tries[3].begun = 3 * TickMs

\* executeWithRetry with maxRetries 3 has ended after one attempt that failed
\* with an error outside the allow-list.
C18_WitnessNotRetryable ==
  /\ txn.mode = "executeWithRetry" /\ txn.pc = "done"
  /\ txn.maxRetries = 3
  /\ Len(txn.tries) = 1
  /\ txn.outcome = ConstraintError
  /\ txn.waits = <<>>

\* Call k of a history h of one identifier, made at a time when every entry
\* that call j (j <= k) left in the log is still inside the window.
StillInWindow(h, j, k) == h[j].now > h[k].now - policy.windowMs

\* C19: when a call is rejected, the next call of the identifier that is made
\* while all the entries the rejected call counted are still inside the
\* window sees a count one higher than the rejected call saw (store in good
\* health, both batches executed at the time their call read the clock).
C19_RejectedAttemptsCount ==
  \A i \in Identifiers :
    LET h == CallsOf(i) IN
    \A k \in 1..(Len(h) - 1) :
      ( /\ h[k].done /\ h[k].healthy /\ ~h[k].result.success
        /\ h[k + 1].done /\ h[k + 1].healthy
        /\ h[k].prompt /\ h[k + 1].prompt
        /\ \A j \in 1..k : StillInWindow(h, j, k) => StillInWindow(h, j, k + 1) )
      => /\ IsNum(h[k].count) /\ IsNum(h[k + 1].count)
         /\ h[k + 1].count[2] = h[k].count[2] + 1

\* With limit 1 the second call of an identifier was rejected seeing count 1
\* and its third call, later but inside the window, saw count 2.
C19_Witness ==
  \E i \in Identifiers :
    LET h == CallsOf(i) IN
    /\ Len(h) = 3 /\ policy.limit = 1
    /\ \A k \in 1..3 : h[k].done /\ h[k].healthy /\ h[k].prompt
    /\ ~h[2].result.success /\ h[2].count = Num(1)
    /\ ~h[3].result.success /\ h[3].count = Num(2)
    /\ h[3].now > h[2].now
    /\ h[3].now - h[1].now < policy.windowMs

\* C20: the count a call sees is the number of earlier attempts of the
\* identifier with timestamp >= windowStart = now - windowMs: an entry at
\* exactly windowStart is kept and counted (one process, store in good
\* health, every batch executed at the time its call read the clock,
\* attempts less than a time to live apart so that the key is alive).
C20_BoundaryEntryKept ==
  \A i \in Identifiers :
    LET h == CallsOf(i) IN
    \A k \in 1..Len(h) :
      ( /\ \A j \in 1..k : h[j].done /\ h[j].healthy /\ h[j].prompt
        /\ \A j \in 2..k :
             h[j].now - h[j - 1].now < CeilDiv(policy.windowMs, MsPerSec) * MsPerSec )
      => h[k].count =
           Num(Cardinality({j \in 1..(k - 1) : h[j].now >= h[k].now - policy.windowMs}))

\* What the code does at the boundary: the count is the number of earlier
\* attempts with timestamp > windowStart, as long as the key has not expired
\* in between (attempts less than a TTL apart).
CountsEntriesAfterWindowStart ==
  \A i \in Identifiers :
    LET h == CallsOf(i) IN
    \A k \in 1..Len(h) :
      ( /\ \A j \in 1..k : h[j].done /\ h[j].healthy /\ h[j].prompt
        /\ \A j \in 2..k :
             h[j].now - h[j - 1].now < CeilDiv(policy.windowMs, MsPerSec) * MsPerSec )
      => h[k].count =
           Num(Cardinality({j \in 1..(k - 1) : h[j].now > h[k].now - policy.windowMs}))

\* The batches of the first n calls of the history that are calls of
\* identifier i were all executed at the time their call read the clock.
PromptUpTo(i, n) == \A j \in 1..n : hist[j].identifier = i => hist[j].prompt

\* The attempts of identifier i among the first n calls of the history that
\* a prune made at time t leaves in the log.
RecordedSince(i, n, t) ==
  {j \in 1..n : hist[j].identifier = i /\ hist[j].now > t - policy.windowMs}

\* C21: getRateLimitInfo is read-only for the budget: the count every
\* checkRateLimit call sees is the number of earlier checkRateLimit attempts
\* of its identifier inside the window, however many getRateLimitInfo calls
\* were made, and getRateLimitInfo reports success exactly when that count is
\* below limit, with remaining = max(0, limit - count) (for calls whose batch
\* the store executed, at the time the call read the clock, as it did those
\* of the identifier's calls before).
C21_InfoIsReadOnly ==
  /\ \A k \in DOMAIN hist :
       (hist[k].done /\ PromptUpTo(hist[k].identifier, k)) =>
         LET count == Cardinality(RecordedSince(hist[k].identifier, k - 1, hist[k].now))
         IN /\ hist[k].count = Num(count)
            /\ hist[k].result.success <=> count < policy.limit
  /\ \A n \in DOMAIN infos :
       ( /\ infos[n].done /\ infos[n].exec = "pending" /\ infos[n].prompt
         /\ PromptUpTo(infos[n].identifier, infos[n].after) ) =>
         LET count == Cardinality(RecordedSince(infos[n].identifier, infos[n].after,
                                                infos[n].now))
         IN /\ infos[n].result.success <=> count < policy.limit
            /\ infos[n].result.remaining =
                 Num(IF policy.limit > count THEN policy.limit - count ELSE 0)

\* What getRateLimitInfo returns when exec() rejects or resolves to null:
\* the fail-open result, whatever the log holds.
InfoFailsOpen ==
  \A n \in DOMAIN infos :
    (infos[n].done /\ infos[n].exec /= "pending") =>
      /\ infos[n].result.success
      /\ infos[n].result.remaining = Num(policy.limit - 1)
      /\ infos[n].result.resetTime >= infos[n].now + policy.windowMs

\* Two getRateLimitInfo calls of an identifier that has used its budget have
\* returned, the second with success = false, and a checkRateLimit call of
\* the identifier made after them at the same time has returned.
C21_Witness ==
  \E n1, n2 \in DOMAIN infos, k \in DOMAIN hist :
    /\ n1 < n2 /\ infos[n1].done /\ infos[n2].done
    /\ infos[n1].exec = "pending" /\ infos[n2].exec = "pending"
    /\ infos[n1].prompt /\ infos[n2].prompt /\ hist[k].prompt
    /\ infos[n1].identifier = infos[n2].identifier
    /\ infos[n1].after >= 1
    /\ ~infos[n2].result.success /\ infos[n2].result.remaining = Num(0)
    /\ k > infos[n2].after /\ hist[k].identifier = infos[n2].identifier
    /\ hist[k].done /\ hist[k].now = infos[n2].now
    /\ hist[k].count = Num(policy.limit)

\* A resetRateLimit call whose DEL reached the store.
Deleted(r) == resets[r].exec = "pending"
\* The attempts of call k's identifier that are inside call k's window and
\* were not deleted by a reset made between them and call k.
EntriesLeft(k) ==
  {j \in RecordedSince(hist[k].identifier, k - 1, hist[k].now) :
     ~\E r \in DOMAIN resets :
        /\ Deleted(r) /\ resets[r].identifier = hist[k].identifier
        /\ j <= resets[r].after /\ resets[r].after < k}

\* C22: after a resetRateLimit(identifier) whose DEL succeeded, the next
\* checkRateLimit of the identifier returns success = true with remaining =
\* limit - 1 whatever the log held; a reset deletes nothing of another
\* identifier (every call counts exactly its identifier's attempts in the
\* window that no reset of that identifier deleted, when the batches of the
\* identifier's calls were executed at the time each call read the clock); a
\* reset never throws,
\* also when the store rejects the DEL.
C22_ResetEmptiesLog ==
  /\ \A r \in DOMAIN resets :
       /\ ~resets[r].threw
       /\ Deleted(r) =>
            \A k \in DOMAIN hist :
              ( /\ k = resets[r].after + 1 \/
                     (k > resets[r].after /\
                      \A j \in (resets[r].after + 1)..(k - 1) :
                         hist[j].identifier /= resets[r].identifier)
                /\ hist[k].identifier = resets[r].identifier
                /\ hist[k].done )
              => /\ hist[k].result.success
                 /\ hist[k].result.remaining = Num(policy.limit - 1)
  /\ \A k \in DOMAIN hist :
       (hist[k].done /\ PromptUpTo(hist[k].identifier, k)) =>
         hist[k].count = Num(Cardinality(EntriesLeft(k)))

\* An identifier that had used up its budget was reset, and its next call,
\* made at the same time as the call that was rejected or used the last
\* slot, was allowed.
C22_Witness ==
  \E r \in DOMAIN resets, k \in DOMAIN hist :
    /\ resets[r].done /\ Deleted(r)
    /\ resets[r].after >= policy.limit
    /\ \A j \in 1..resets[r].after :
         hist[j].identifier = resets[r].identifier /\ hist[j].now = hist[k].now
    /\ k = resets[r].after + 1
    /\ hist[k].identifier = resets[r].identifier
    /\ hist[k].done /\ hist[k].result.success
    /\ hist[k].result.remaining = Num(policy.limit - 1)

\* A reset of one identifier was made between two calls of another one, and
\* the second call still counted the first; a reset whose DEL the store
\* rejected has returned.
C22_WitnessOthers ==
  \E r \in DOMAIN resets, k \in DOMAIN hist :
    /\ resets[r].done /\ Deleted(r)
    /\ k > resets[r].after /\ resets[r].after >= 1
    /\ hist[k].identifier /= resets[r].identifier
    /\ hist[k].done /\ hist[k].prompt /\ hist[k].count = Num(1)
    /\ hist[resets[r].after].identifier = hist[k].identifier

C22_WitnessRejected ==
  \E r \in DOMAIN resets : resets[r].done /\ ~Deleted(r) /\ resets[r].after >= 1

\* Operations under name n that are in flight.
InFlight(n) == {r \in Requests : exec[r].pc = "running" /\ exec[r].name = n}

\* C23: with execute calls of one name in flight at once, an operation is
\* never started when the breaker is OPEN and less than recoveryTimeout has
\* passed since lastFailure: such a call invokes nothing, and whenever a call
\* starts its operation the breaker is not OPEN.
C23_NeverStartedWhileCooling ==
  [][ \A r \in Requests, n \in ServiceNames, o \in OptionChoices :
        ExecuteBegin(r, n, o) =>
          /\ OpenAndCooling(n) => (exec'[r].pc = "idle" /\ invoked' = invoked)
          /\ exec'[r].pc = "running" =>
               (invoked' = invoked + 1 /\ circuitBreakers'[n].state /= "OPEN")
    ]_vars

\* While the operation of one request is in flight, a failure of another
\* opened the breaker and a further call was rejected.
C23_Witness ==
  \E n \in ServiceNames, r1, r2 \in Requests :
    /\ r1 /= r2 /\ r1 \in InFlight(n)
    /\ OpenAndCooling(n)
    /\ exec[r2].pc = "idle" /\ exec[r2].last = "circuit_open"
    /\ raised[r2] = CircuitOpenError(n)

\* The values the clock takes.
ClockValues == {k * TickMs : k \in 0..(MaxTime \div TickMs)}

\* C28: an execute call that is rejected because the breaker is OPEN leaves
\* the breaker as it was: state, failureCount, consecutiveSuccesses and
\* lastFailure are unchanged, so at every time the recovery check gives the
\* answer it would have given without the call.
C28_RejectionChangesNothing ==
  [][ \A r \in Requests, n \in ServiceNames, o \in OptionChoices :
        (ExecuteBegin(r, n, o) /\ exec'[r].pc = "idle") =>
          /\ InState(n, "OPEN")
          /\ DOMAIN circuitBreakers' = DOMAIN circuitBreakers
          /\ circuitBreakers'[n].state = Breaker(n).state
          /\ circuitBreakers'[n].failureCount = Breaker(n).failureCount
          /\ circuitBreakers'[n].consecutiveSuccesses = Breaker(n).consecutiveSuccesses
          /\ circuitBreakers'[n].lastFailure = Breaker(n).lastFailure
          /\ \A t \in ClockValues :
               ShouldAttemptReset(circuitBreakers'[n], t) <=> ShouldAttemptReset(Breaker(n), t)
    ]_vars

\* A call was rejected after the last failure, and the probe made exactly
\* recoveryTimeout after that failure was let through all the same.
C28_Witness ==
  \E n \in ServiceNames, r1, r2 \in Requests :
    /\ InState(n, "HALF_OPEN") /\ r1 \in InFlight(n)
    /\ exec[r2].pc = "idle" /\ exec[r2].last = "circuit_open"
    /\ IsNum(Breaker(n).lastFailure)
    /\ clock = Breaker(n).lastFailure[2] + Breaker(n).options.recoveryTimeout
    /\ Breaker(n).lastStateChange = clock

\* C27: whenever a breaker is OPEN its failureCount is at least
\* failureThreshold and its consecutiveSuccesses is 0, also when calls started
\* before it opened settle while it is OPEN.
C27_OpenCountersIntact ==
  \A n \in ServiceNames :
    InState(n, "OPEN") =>
      /\ Breaker(n).failureCount >= Threshold(n)
      /\ Breaker(n).consecutiveSuccesses = 0

\* What the code keeps while a breaker is OPEN when calls overlap: the state
\* itself and lastFailure; a success that settles leaves it OPEN.
OpenSurvivesLateSuccess ==
  [][ \A r \in Requests :
        (OperationSucceeds(r) /\ InState(exec[r].name, "OPEN")) =>
          /\ circuitBreakers'[exec[r].name].state = "OPEN"
          /\ circuitBreakers'[exec[r].name].failureCount = 0
          /\ circuitBreakers'[exec[r].name].consecutiveSuccesses =
               Breaker(exec[r].name).consecutiveSuccesses + 1
          /\ circuitBreakers'[exec[r].name].lastFailure = Breaker(exec[r].name).lastFailure
    ]_vars

\* C26: in every reachable state of a breaker with failureThreshold >= 1,
\* CLOSED implies failureCount < failureThreshold and OPEN implies that
\* lastFailure is recorded, also after outcomes that settle after a
\* transition or a reset.
C26_StateInvariants ==
  \A n \in DOMAIN circuitBreakers :
    Threshold(n) >= 1 =>
      /\ Breaker(n).state = "CLOSED" => Breaker(n).failureCount < Threshold(n)
      /\ Breaker(n).state = "OPEN" => IsNum(Breaker(n).lastFailure)

\* An OPEN breaker was reset while an operation was in flight, and that
\* operation then failed and opened the breaker again.
C26_Witness ==
  \E n \in ServiceNames :
    /\ InState(n, "OPEN")
    /\ resetLog[n] = [from |-> "OPEN", next |-> "void"]
    /\ Breaker(n).failureCount = Threshold(n)
    /\ AllSettled

\* A breaker with threshold 2 or more was reset while an operation was in
\* flight; the operation failed and the breaker is CLOSED with one failure
\* counted.
C26_WitnessClosed ==
  \E n \in ServiceNames :
    /\ InState(n, "CLOSED")
    /\ resetLog[n] = [from |-> "OPEN", next |-> "void"]
    /\ Breaker(n).failureCount = 1
    /\ IsNum(Breaker(n).lastFailure)

\* The number of successful probes in a row that closes the breaker of n.
ProbesNeeded(n) == CeilDiv(Threshold(n), 2)

\* C25: while a breaker is HALF_OPEN a limited number of calls is let
\* through: the operations invoked during one HALF_OPEN period, those in
\* flight at once included, are never more than the number of successful
\* probes that closes the breaker, further calls being rejected.
C25_HalfOpenLetsFewThrough ==
  \A n \in ServiceNames :
    InState(n, "HALF_OPEN") => letThrough[n] <= ProbesNeeded(n)

\* What the code does in HALF_OPEN: every call is let through, none is
\* rejected.
HalfOpenAdmitsEveryCall ==
  [][ \A r \in Requests, n \in ServiceNames, o \in OptionChoices :
        (InState(n, "HALF_OPEN") /\ ExecuteBegin(r, n, o)) =>
          /\ exec'[r].pc = "running"
          /\ invoked' = invoked + 1
          /\ letThrough'[n] = letThrough[n] + 1
    ]_vars

\* C24: the breaker has no terminal state: once the operations stop failing,
\* with calls arriving and time advancing, every breaker becomes CLOSED and
\* stays CLOSED, from whatever state and counters the failures left it in.
C24_EventuallyClosedForGood ==
  <>[](\A n \in DOMAIN circuitBreakers : Breaker(n).state = "CLOSED")

\* A breaker that opened, failed its probe after the recovery timeout,
\* opened again and waited once more, is CLOSED.
C24_Witness ==
  \E n \in ServiceNames :
    /\ InState(n, "CLOSED")
    /\ failures[n] > Threshold(n)
    /\ IsNum(Breaker(n).lastFailure)
    /\ Breaker(n).lastFailure[2] >= Breaker(n).options.recoveryTimeout
    /\ Breaker(n).lastStateChange >=
         Breaker(n).lastFailure[2] + Breaker(n).options.recoveryTimeout
    /\ AllSettled

\* The route of the request that made call k, and its window.
RouteOfCall(k) ==
  handled[CHOOSE m \in DOMAIN handled : handled[m].check = k].route
WindowOfCall(k) == AnnotationOf(RouteOfCall(k)).windowMs
\* The calls of call k's client before call k, on whatever route.
EarlierCalls(k) == {j \in 1..(k - 1) : hist[j].identifier = hist[k].identifier}
LatestOf(S) == CHOOSE j \in S : \A i \in S : i <= j
\* One log per client, whatever the route: the attempts in it right after
\* call k. Call k finds what the client's previous call left, unless the key
\* has expired since, drops what its own window no longer covers, and adds
\* itself.
RECURSIVE SharedLogAfter(_)
SharedLogAfter(k) ==
  LET before == EarlierCalls(k)
      found ==
        IF before = {} THEN {}
        ELSE LET j == LatestOf(before) IN
             IF hist[k].now < hist[j].now + CeilDiv(WindowOfCall(j), MsPerSec) * MsPerSec
             THEN SharedLogAfter(j) ELSE {}
  IN {e \in found : hist[e].now > hist[k].now - WindowOfCall(k)} \cup {k}

\* C29: the guard passes the route's annotation on as the policy and the key
\* is built from the default prefix and the client identifier alone, so all
\* rate-limited routes of a client share one log: the count a check sees is
\* taken from that log, requests to other routes included, after the prunes
\* of the checks of other routes, a shorter window among them (the batches
\* of the client's checks executed at the time each check read the clock).
C29_RoutesShareOneLog ==
  \A m \in DOMAIN handled :
    LET k == handled[m].check IN
    /\ hist[k].identifier = handled[m].identifier
    /\ \A c \in Callers :
         (call[c].pc = "awaiting" /\ call[c].seq = k) =>
           /\ call[c].key = defaultOptions.keyPrefix \o handled[m].identifier
           /\ call[c].opts.limit = AnnotationOf(handled[m].route).limit
           /\ call[c].opts.windowMs = AnnotationOf(handled[m].route).windowMs
    /\ (hist[k].done /\ \A j \in EarlierCalls(k) \cup {k} : hist[j].prompt) =>
         /\ hist[k].count = Num(Cardinality(SharedLogAfter(k) \ {k}))
         /\ hist[k].result.limit = AnnotationOf(handled[m].route).limit
         /\ hist[k].result.success <=>
              Cardinality(SharedLogAfter(k) \ {k}) < AnnotationOf(handled[m].route).limit

\* A client registered, later logged in and registered again: the login
\* check pruned the first registration, which the longer window of the
\* register route still covers, and the second registration was rejected on
\* the count of the login alone.
C29_Witness ==
  /\ Len(handled) = 3
  /\ \A m \in 1..3 : handled[m].check = m /\ hist[m].done /\ hist[m].prompt
  /\ handled[1].identifier = handled[2].identifier
  /\ handled[2].identifier = handled[3].identifier
  /\ handled[1].route = "POST /auth/register"
  /\ handled[2].route = "POST /auth/login"
  /\ handled[3].route = "POST /auth/register"
  /\ hist[1].now > hist[3].now - WindowOfCall(3)
  /\ hist[1].now < hist[2].now - WindowOfCall(2)
  /\ hist[2].count = Num(0)
  /\ hist[3].count = Num(1)
  /\ handled[3].outcome = "429"

\* The gap between call n of a history h and the call before it is shorter
\* than windowMs / limit.
ShortGap(h, n) == (h[n].now - h[n - 1].now) * policy.limit < policy.windowMs

\* C30 as stated: once a call of an identifier is rejected, the next call made
\* less than windowMs / limit after it is rejected too (the batches of the
\* calls executed at the time each call read the clock).
C30_RejectedWhileCallingFast ==
  \A i \in Identifiers :
    LET h == CallsOf(i) IN
    \A n \in 2..Len(h) :
      ( /\ h[n - 1].done /\ h[n].done
        /\ \A j \in 1..n : h[j].prompt
        /\ ~h[n - 1].result.success
        /\ ShortGap(h, n) )
      => ~h[n].result.success

\* C30 amended: a call is rejected whenever each of the limit gaps before it
\* is shorter than windowMs / limit, rejected calls among them counting like
\* allowed ones; and a call is allowed exactly when fewer than limit recorded
\* attempts lie in its trailing window (the batches of the calls executed at
\* the time each call read the clock).
C30_SteadyRateStaysRejected ==
  \A i \in Identifiers :
    LET h == CallsOf(i) IN
    \A n \in 1..Len(h) :
      (h[n].done /\ \A j \in 1..n : h[j].prompt) =>
        /\ ( /\ n > policy.limit
             /\ \A j \in (n - policy.limit + 1)..n : ShortGap(h, j) )
           => ~h[n].result.success
        /\ h[n].result.success <=>
             Cardinality({j \in 1..(n - 1) : h[j].now > h[n].now - policy.windowMs})
               < policy.limit

\* With limit 2 a client called at a steady rate, each call later than the one
\* before: its third and fourth calls were rejected, the fourth on the count
\* of the second call and of the rejected third.
C30_Witness ==
  LET h == CallsOf("a") IN
  /\ Len(h) = 4 /\ policy.limit = 2
  /\ \A n \in 1..4 : h[n].done /\ h[n].prompt
  /\ \A n \in 2..4 : h[n].now > h[n - 1].now /\ ShortGap(h, n)
  /\ h[1].result.success /\ h[2].result.success
  /\ ~h[3].result.success /\ ~h[4].result.success
  /\ h[4].count = Num(2)
  /\ h[1].now <= h[4].now - policy.windowMs

====
